---- MODULE Spec2Model ----
(***************************************************************************)
(* A model of the immich-operator reconciler: the Immich custom resource,  *)
(* the child objects the operator writes for it, one reconcile pass as a   *)
(* sequence of API calls, and the pure helpers (validation, image          *)
(* resolution) the pass relies on.                                          *)
(***************************************************************************)
EXTENDS Integers, Sequences, FiniteSets, TLC

\* A Go nil pointer (an unset optional field of the CR spec).
Nil == "<nil>"

Components == {"server", "machine-learning", "valkey", "postgres"}

----------------------------------------------------------------------------
\* Bounds of the model.

\* At most this many optional fields of the CR spec are set in a spec handed
\* to the pure validation / image-resolution functions.
MaxSetFields == 3

\* At most this many incarnations (UIDs) of the CR are created.
MaxIncarnations == 2

\* At most this many disturbances in a run: an API call that fails for a
\* reason other than not-found or conflict, an edit of the spec of the
\* live CR, an object another actor creates under the name of a durable
\* object, a CR created with the finalizer of another controller.
MaxDisturbances == 1

\* The same for the runs of a CR that is never deleted, in which one pass
\* can meet two failures.
MaxPassDisturbances == 2

----------------------------------------------------------------------------
\* The CR spec (api/v1alpha1: ImmichSpec and its sub-specs), reduced to the
\* fields the reconciler's control flow reads.

EnabledValues == {Nil, "true", "false"}
ImageValues == {Nil, "", "custom"}

PersistenceValues == {Nil, "true", "false"}

ServerSpecs ==
    [enabled : EnabledValues, image : ImageValues,
     ingressEnabled : {Nil}, routeEnabled : {Nil}]
MachineLearningSpecs ==
    [enabled : EnabledValues, image : ImageValues,
     url : {"", "http://external-ml.example.com:3003"},
     persistenceEnabled : {Nil}]
ValkeySpecs ==
    [enabled : EnabledValues, image : ImageValues,
     host : {"", "external-redis.example.com"},
     persistenceEnabled : {Nil}]
PostgresSpecs ==
    [enabled : EnabledValues, image : ImageValues,
     host : {"", "external-postgres.example.com"},
     passwordSecretRef : {Nil, "postgres-secret"},
     urlSecretRef : {Nil, "postgres-url-secret"}]
ImmichConfigs ==
    [configurationKind : {Nil}, libraryExistingClaim : {Nil}]

ImmichSpecs ==
    [server : ServerSpecs, machineLearning : MachineLearningSpecs,
     valkey : ValkeySpecs, postgres : PostgresSpecs, immich : ImmichConfigs]

\* The zero value of ImmichSpec: every optional field unset.
DefaultSpec ==
    [server |-> [enabled |-> Nil, image |-> Nil,
                 ingressEnabled |-> Nil, routeEnabled |-> Nil],
     machineLearning |-> [enabled |-> Nil, image |-> Nil, url |-> "",
                          persistenceEnabled |-> Nil],
     valkey |-> [enabled |-> Nil, image |-> Nil, host |-> "",
                 persistenceEnabled |-> Nil],
     postgres |-> [enabled |-> Nil, image |-> Nil, host |-> "",
                   passwordSecretRef |-> Nil, urlSecretRef |-> Nil],
     immich |-> [configurationKind |-> Nil, libraryExistingClaim |-> Nil]]

\* A sub-spec pointer (spec.server, spec.postgres, ...) is nil exactly when
\* none of its fields is set.
IsUnset(v) == v = Nil \/ v = ""
SubSpecNil(sub) == \A f \in DOMAIN sub : IsUnset(sub[f])

B2N(b) == IF b THEN 1 ELSE 0
Set(v) == B2N(~IsUnset(v))
SetFieldCount(s) ==
    Set(s.server.enabled) + Set(s.server.image)
    + Set(s.server.ingressEnabled) + Set(s.server.routeEnabled)
    + Set(s.machineLearning.enabled) + Set(s.machineLearning.image)
    + Set(s.machineLearning.url) + Set(s.machineLearning.persistenceEnabled)
    + Set(s.valkey.enabled) + Set(s.valkey.image)
    + Set(s.valkey.host) + Set(s.valkey.persistenceEnabled)
    + Set(s.postgres.enabled) + Set(s.postgres.image) + Set(s.postgres.host)
    + Set(s.postgres.passwordSecretRef) + Set(s.postgres.urlSecretRef)
    + Set(s.immich.configurationKind) + Set(s.immich.libraryExistingClaim)

\* The process environment of the operator: RELATED_IMAGE_* per component,
\* "" when the variable is not set.
RelatedImage(c) == "related-image-" \o c
Envs == [Components -> {""}] \cup
        { [c \in Components |-> IF c \in S THEN RelatedImage(c) ELSE ""] :
            S \in SUBSET Components }
AllImagesEnv == [c \in Components |-> RelatedImage(c)]

VARIABLES
    env,        \* os.Getenv: RELATED_IMAGE_* of the operator process
    vimmich,    \* the Immich object handed to the pure functions
    verr,       \* result of validateImages(vimmich), or "pending"
    vimages,    \* result of the Get*Image accessors, or "pending"
    fin,        \* the arguments of a call of one of the other pure functions
    fout,       \* <<its result>>, or <<>> before the call
    cr,         \* the Immich CR as stored by the API server
    objs,       \* the child objects in the namespace, by Kind/name
    pc,         \* position of the reconcile pass ("idle" between passes)
    immich,     \* the pass's in-memory copy of the CR (r.Get at pass start)
    stale,      \* the stored CR was written by someone else since r.Get
    reconcileErr, \* the pass's collected component error: the step it came from
    writes,     \* the API writes the current (or last) pass issued, in order
    result,     \* what the last finished pass returned
    finalizerPersisted, \* UIDs on which a pass persisted the finalizer
    nextUid,    \* UID of the next CR incarnation
    disturbances, \* disturbances left in this run (see MaxDisturbances)
    generated,  \* passwords generated so far
    quiet       \* how long nothing but the reconciler has acted (see Quiet)

vvars == <<vimmich, verr, vimages, fin, fout>>
lvars == <<cr, objs, pc, immich, stale, reconcileErr, writes, result,
           finalizerPersisted, nextUid, disturbances, generated, quiet>>
vars == <<env, vvars, lvars>>

----------------------------------------------------------------------------
\* api/v1alpha1 helper methods.

IsServerEnabled(i) ==
    IF SubSpecNil(i.spec.server) \/ i.spec.server.enabled = Nil
    THEN TRUE ELSE i.spec.server.enabled = "true"

IsMachineLearningEnabled(i) ==
    IF SubSpecNil(i.spec.machineLearning) \/ i.spec.machineLearning.enabled = Nil
    THEN TRUE ELSE i.spec.machineLearning.enabled = "true"

IsValkeyEnabled(i) ==
    IF SubSpecNil(i.spec.valkey) \/ i.spec.valkey.enabled = Nil
    THEN TRUE ELSE i.spec.valkey.enabled = "true"

IsPostgresEnabled(i) ==
    IF SubSpecNil(i.spec.postgres) \/ i.spec.postgres.enabled = Nil
    THEN TRUE ELSE i.spec.postgres.enabled = "true"

\* GetServerImage without the test for the empty string.
GetServerImageNoEmptyTest(i) ==
    IF ~SubSpecNil(i.spec.server) /\ i.spec.server.image # Nil
    THEN i.spec.server.image ELSE env["server"]

GetServerImage(i) ==
    IF ~SubSpecNil(i.spec.server) /\ i.spec.server.image # Nil
       /\ i.spec.server.image # ""
    THEN i.spec.server.image ELSE env["server"]

GetMachineLearningImage(i) ==
    IF ~SubSpecNil(i.spec.machineLearning) /\ i.spec.machineLearning.image # Nil
       /\ i.spec.machineLearning.image # ""
    THEN i.spec.machineLearning.image ELSE env["machine-learning"]

GetValkeyImage(i) ==
    IF ~SubSpecNil(i.spec.valkey) /\ i.spec.valkey.image # Nil
       /\ i.spec.valkey.image # ""
    THEN i.spec.valkey.image ELSE env["valkey"]

GetPostgresImage(i) ==
    IF ~SubSpecNil(i.spec.postgres) /\ i.spec.postgres.image # Nil
       /\ i.spec.postgres.image # ""
    THEN i.spec.postgres.image ELSE env["postgres"]

----------------------------------------------------------------------------
\* validateImages.  An error is its message, kept as the sequence of the
\* fragments fmt.Errorf joins; the nil error is the empty sequence.

NoError == <<>>
SeqIf(cond, s) == IF cond THEN s ELSE <<>>
Contains(err, fragment) == \E k \in 1..Len(err) : err[k] = fragment

MissingServer == <<"server", " (set spec.server.image or RELATED_IMAGE_immich env var)">>
MissingML == <<"machine-learning", " (set spec.machineLearning.image or RELATED_IMAGE_machineLearning env var)">>
MissingValkey == <<"valkey", " (set spec.valkey.image or RELATED_IMAGE_valkey env var)">>
MissingPostgres == <<"postgres", " (set spec.postgres.image or RELATED_IMAGE_postgres env var)">>
ErrPostgresHost == <<"spec.postgres.host is required", " when spec.postgres.enabled=false">>
ErrPostgresPassword == <<"spec.postgres.password or spec.postgres.", "passwordSecretRef is required", " when spec.postgres.enabled=false">>
ErrValkeyHost == <<"spec.valkey.host is required", " when spec.valkey.enabled=false">>

missingImages(i) ==
    SeqIf(IsServerEnabled(i) /\ GetServerImage(i) = "", MissingServer)
    \o SeqIf(IsMachineLearningEnabled(i) /\ GetMachineLearningImage(i) = "", MissingML)
    \o SeqIf(IsValkeyEnabled(i) /\ GetValkeyImage(i) = "", MissingValkey)
    \o SeqIf(IsPostgresEnabled(i) /\ GetPostgresImage(i) = "", MissingPostgres)

\* configErrors without the check of the external cache host.
configErrorsNoValkeyHost(i) ==
    SeqIf(~IsPostgresEnabled(i),
          SeqIf(SubSpecNil(i.spec.postgres) \/ i.spec.postgres.host = "",
                ErrPostgresHost)
          \o SeqIf(SubSpecNil(i.spec.postgres)
                   \/ (i.spec.postgres.passwordSecretRef = Nil
                       /\ i.spec.postgres.urlSecretRef = Nil),
                   ErrPostgresPassword))

\* configErrors without the checks of the external database.
configErrorsNoPostgres(i) ==
    SeqIf(~IsValkeyEnabled(i),
          SeqIf(SubSpecNil(i.spec.valkey) \/ i.spec.valkey.host = "",
                ErrValkeyHost))

configErrors(i) ==
    SeqIf(~IsPostgresEnabled(i),
          SeqIf(SubSpecNil(i.spec.postgres) \/ i.spec.postgres.host = "",
                ErrPostgresHost)
          \o SeqIf(SubSpecNil(i.spec.postgres)
                   \/ (i.spec.postgres.passwordSecretRef = Nil
                       /\ i.spec.postgres.urlSecretRef = Nil),
                   ErrPostgresPassword))
    \o SeqIf(~IsValkeyEnabled(i),
             SeqIf(SubSpecNil(i.spec.valkey) \/ i.spec.valkey.host = "",
                   ErrValkeyHost))

\* validateImages with the external machine-learning URL required, as for
\* the database and the cache.
validateImagesRequireMLURL(i) ==
    LET errs == configErrors(i)
                \o SeqIf(~IsMachineLearningEnabled(i) /\ i.spec.machineLearning.url = "",
                         <<"spec.machineLearning.url is required",
                           " when spec.machineLearning.enabled=false">>)
    IN IF Len(missingImages(i)) > 0
       THEN <<"missing required images: ">> \o missingImages(i)
       ELSE IF Len(errs) > 0
            THEN <<"configuration errors: ">> \o errs
            ELSE NoError

validateImages(i) ==
    IF Len(missingImages(i)) > 0
    THEN <<"missing required images: ">> \o missingImages(i)
    ELSE IF Len(configErrors(i)) > 0
         THEN <<"configuration errors: ">> \o configErrors(i)
         ELSE NoError

----------------------------------------------------------------------------
\* More api/v1alpha1 helper methods.

GetLibraryPVCName(i) ==
    IF ~SubSpecNil(i.spec.immich) /\ i.spec.immich.libraryExistingClaim # Nil
       /\ i.spec.immich.libraryExistingClaim # ""
    THEN i.spec.immich.libraryExistingClaim
    ELSE i.name \o "-library"

ShouldCreateLibraryPVC(i) ==
    IF ~SubSpecNil(i.spec.immich)
    THEN i.spec.immich.libraryExistingClaim = Nil
         \/ i.spec.immich.libraryExistingClaim = ""
    ELSE TRUE

GetPostgresUsername(i) == "immich"
GetPostgresDatabase(i) == "immich"

GetMachineLearningURL(i) ==
    IF IsMachineLearningEnabled(i)
    THEN "http://" \o i.name \o "-machine-learning:3003"
    ELSE IF ~SubSpecNil(i.spec.machineLearning)
         THEN i.spec.machineLearning.url ELSE ""

IsIngressEnabled(i) ==
    IF SubSpecNil(i.spec.server) \/ i.spec.server.ingressEnabled = Nil
    THEN FALSE ELSE i.spec.server.ingressEnabled = "true"

IsRouteEnabled(i) ==
    IF SubSpecNil(i.spec.server) \/ i.spec.server.routeEnabled = Nil
    THEN FALSE ELSE i.spec.server.routeEnabled = "true"

IsRouteExplicitlyDisabled(i) ==
    IF SubSpecNil(i.spec.server) \/ i.spec.server.routeEnabled = Nil
    THEN FALSE ELSE i.spec.server.routeEnabled # "true"

ShouldCreateRoute(i, routeAPIAvailable) ==
    IF IsRouteExplicitlyDisabled(i) THEN FALSE
    ELSE IF IsRouteEnabled(i) THEN TRUE
    ELSE routeAPIAvailable

GetConfigurationKind(i) ==
    IF ~SubSpecNil(i.spec.immich) /\ i.spec.immich.configurationKind # Nil
       /\ i.spec.immich.configurationKind # ""
    THEN i.spec.immich.configurationKind ELSE "ConfigMap"

\* The cluster the operator runs on has no OpenShift Route API.
IsRouteAPIAvailable == FALSE

----------------------------------------------------------------------------
\* The cluster: the CR and the child objects, keyed by Kind/name.

CRName == "demo"

LibraryPVC == "PersistentVolumeClaim/" \o CRName \o "-library"
PostgresCredentials == "Secret/" \o CRName \o "-postgres-credentials"
PostgresDataPVC == "PersistentVolumeClaim/data-" \o CRName \o "-postgres-0"
ConfigMapKey == "ConfigMap/" \o CRName \o "-immich-config"
ConfigSecretKey == "Secret/" \o CRName \o "-immich-config"
PostgresStatefulSet == "StatefulSet/" \o CRName \o "-postgres"
PostgresService == "Service/" \o CRName \o "-postgres"
ValkeyPVC == "PersistentVolumeClaim/" \o CRName \o "-valkey-data"
ValkeyDeployment == "Deployment/" \o CRName \o "-valkey"
ValkeyService == "Service/" \o CRName \o "-valkey"
MLPVC == "PersistentVolumeClaim/" \o CRName \o "-ml-cache"
MLDeployment == "Deployment/" \o CRName \o "-machine-learning"
MLService == "Service/" \o CRName \o "-machine-learning"
ServerDeployment == "Deployment/" \o CRName \o "-server"
ServerService == "Service/" \o CRName \o "-server"
ServerRoute == "Route/" \o CRName \o "-server"
ServerIngress == "Ingress/" \o CRName \o "-server"

DurableKeys == {LibraryPVC, PostgresCredentials, PostgresDataPVC}
OwnedKeys == {ConfigMapKey, ConfigSecretKey, PostgresStatefulSet, PostgresService,
              ValkeyPVC, ValkeyDeployment, ValkeyService, MLPVC, MLDeployment,
              MLService, ServerDeployment, ServerService, ServerRoute,
              ServerIngress}
ObjKeys == DurableKeys \cup OwnedKeys

\* An object of the cluster.  owner: UID of its controller owner reference
\* (0: none); by: UID of the CR whose pass created the object (0: someone
\* else did), which tells an object from a later one of the same name;
\* data: its content.
Absent == [exists |-> FALSE, owner |-> 0, by |-> 0, data |-> <<>>]
NewObject(owner, by, data) ==
    [exists |-> TRUE, owner |-> owner, by |-> by, data |-> data]

\* generateRandomPassword: rand.Read fills a buffer of length bytes (read.b,
\* or fails: read.err), and each byte picks a character of the charset.
\* A string is the sequence of its characters.
charset ==
    <<"a", "b", "c", "d", "e", "f", "g", "h", "i", "j", "k", "l", "m",
      "n", "o", "p", "q", "r", "s", "t", "u", "v", "w", "x", "y", "z",
      "A", "B", "C", "D", "E", "F", "G", "H", "I", "J", "K", "L", "M",
      "N", "O", "P", "Q", "R", "S", "T", "U", "V", "W", "X", "Y", "Z",
      "0", "1", "2", "3", "4", "5", "6", "7", "8", "9">>

\* generateRandomPassword that leaves the last character out.
generateRandomPasswordShort(length, read) ==
    IF read.err THEN [password |-> <<>>, err |-> TRUE]
    ELSE [password |-> [n \in 1..(length - 1) |->
                           charset[(read.b[n] % Len(charset)) + 1]],
          err |-> FALSE]

generateRandomPassword(length, read) ==
    IF read.err THEN [password |-> <<>>, err |-> TRUE]
    ELSE [password |-> [n \in 1..length |-> charset[(read.b[n] % Len(charset)) + 1]],
          err |-> FALSE]

\* crypto/rand in the lifecycle: the n-th call of a run fills the buffer
\* with the n-th draw, and no two draws are the same.
randRead(n, length) ==
    [err |-> FALSE, b |-> [k \in 1..length |-> (97 * n + 31 * k) % 256]]

\* The password reconcilePostgresCredentials asks for.
PasswordLength == 32

EmptyStatus ==
    [ready |-> FALSE, serverReady |-> FALSE, machineLearningReady |-> FALSE,
     valkeyReady |-> FALSE, postgresReady |-> FALSE, conditions |-> <<>>,
     observedGeneration |-> 0, url |-> ""]

\* No error (nil).
NoErr == ""

NoResult == [requeue |-> "none", err |-> FALSE, branch |-> "none", cause |-> NoErr]

NoCR ==
    [exists |-> FALSE, name |-> CRName, uid |-> 0, finalizer |-> FALSE,
     foreign |-> FALSE, deleting |-> FALSE, generation |-> 0,
     spec |-> DefaultSpec, status |-> EmptyStatus]

\* The specs users give the CR in the lifecycle model.
ExternalDBNoHostSpec ==
    [DefaultSpec EXCEPT !.postgres.enabled = "false"]
ExternalSpec ==
    [DefaultSpec EXCEPT !.postgres.enabled = "false",
                        !.postgres.host = "external-postgres.example.com",
                        !.postgres.passwordSecretRef = "postgres-secret",
                        !.valkey.enabled = "false",
                        !.valkey.host = "external-redis.example.com",
                        !.machineLearning.enabled = "false",
                        !.server.enabled = "false"]
CustomSpec ==
    [DefaultSpec EXCEPT !.postgres.passwordSecretRef = "postgres-secret",
                        !.immich.libraryExistingClaim = "photos",
                        !.immich.configurationKind = "Secret",
                        !.valkey.persistenceEnabled = "true",
                        !.machineLearning.persistenceEnabled = "false",
                        !.server.ingressEnabled = "true",
                        !.server.routeEnabled = "true"]
LifecycleSpecs == {DefaultSpec, ExternalDBNoHostSpec, ExternalSpec, CustomSpec}

----------------------------------------------------------------------------
\* Desired child objects (the builders of the reconcile functions).

\* The library PVC with the CR as its controller owner.
LibraryPVCObjectOwned(i) ==
    NewObject(i.uid, i.uid, <<"storage", "10Gi", "ReadWriteOnce">>)

\* library.go: the PVC literal, without owner reference.
LibraryPVCObject(i) ==
    NewObject(0, i.uid, <<"storage", "10Gi", "ReadWriteOnce">>)

\* The credentials Secret with the CR as its controller owner.
PostgresCredentialsObjectOwned(i, password) ==
    NewObject(i.uid, i.uid, <<"password", password,
                              "username", GetPostgresUsername(i),
                              "database", GetPostgresDatabase(i)>>)

\* postgres.go: the credentials Secret literal, without owner reference.
PostgresCredentialsObject(i, password) ==
    NewObject(0, i.uid, <<"password", password,
                         "username", GetPostgresUsername(i),
                         "database", GetPostgresDatabase(i)>>)

\* config.go: applyMLConfigMap / buildEffectiveConfigMap with no user
\* configuration block.
buildEffectiveConfigMap(i) ==
    LET mlURL == GetMachineLearningURL(i)
        mlEnabled == IsMachineLearningEnabled(i) \/ i.spec.machineLearning.url # ""
    IN <<"machineLearning.enabled", IF mlEnabled THEN "true" ELSE "false">>
       \o SeqIf(mlURL # "", <<"machineLearning.urls", mlURL>>)

ConfigObject(i) == NewObject(i.uid, i.uid, buildEffectiveConfigMap(i))

PostgresStatefulSetObject(i) ==
    NewObject(i.uid, i.uid, <<"image", GetPostgresImage(i), "volumeClaimTemplate", "data">>)
PostgresServiceObject(i) == NewObject(i.uid, i.uid, <<"port", "5432">>)
\* The cache data PVC without owner reference.
ValkeyPVCObjectNoOwner(i) == NewObject(0, i.uid, <<"storage", "10Gi", "ReadWriteOnce">>)
ValkeyPVCObject(i) == NewObject(i.uid, i.uid, <<"storage", "10Gi", "ReadWriteOnce">>)
ValkeyDeploymentObject(i) == NewObject(i.uid, i.uid, <<"image", GetValkeyImage(i)>>)
ValkeyServiceObject(i) == NewObject(i.uid, i.uid, <<"port", "6379">>)
MLPVCObject(i) == NewObject(i.uid, i.uid, <<"storage", "10Gi", "ReadWriteOnce">>)
MLDeploymentObject(i) == NewObject(i.uid, i.uid, <<"image", GetMachineLearningImage(i)>>)
MLServiceObject(i) == NewObject(i.uid, i.uid, <<"port", "3003">>)
ServerDeploymentObject(i) ==
    NewObject(i.uid, i.uid, <<"image", GetServerImage(i),
                              "config", GetConfigurationKind(i),
                              "library", GetLibraryPVCName(i)>>)
ServerServiceObject(i) == NewObject(i.uid, i.uid, <<"port", "2283">>)
ServerRouteObject(i) == NewObject(i.uid, i.uid, <<"to", CRName \o "-server">>)
ServerIngressObject(i) == NewObject(i.uid, i.uid, <<"backend", CRName \o "-server">>)

----------------------------------------------------------------------------
\* The write protocols.  A step is one call of a reconcile function on one
\* object; running it on the store o gives the store after it and the
\* writes it issued.

Step(kind, key, obj) == [kind |-> kind, key |-> key, obj |-> obj]
Write(op, key, ok) == [op |-> op, key |-> key, ok |-> ok]

\* apply: server-side apply, an upsert of the declared fields (forced
\* ownership), owner references included.
ApplyEffect(o, st) ==
    IF o[st.key].exists
    THEN [o EXCEPT ![st.key].owner = st.obj.owner, ![st.key].data = st.obj.data]
    ELSE [o EXCEPT ![st.key] = st.obj]

\* Get, then Create only when not found (the PVC functions).
EnsureEffect(o, st) ==
    IF o[st.key].exists THEN o ELSE [o EXCEPT ![st.key] = st.obj]

\* createOrUpdate: Get into the object, mutate the data, Create when not
\* found, else Update when the mutation changed something.  The Get
\* overwrites the metadata set before the call, so an existing object
\* keeps its owner references.
CreateOrUpdateEffect(o, st) ==
    IF o[st.key].exists
    THEN [o EXCEPT ![st.key].data = st.obj.data]
    ELSE [o EXCEPT ![st.key] = st.obj]

StepEffect(o, st) ==
    IF st.kind = "apply" THEN ApplyEffect(o, st)
    ELSE IF st.kind = "ensure" THEN EnsureEffect(o, st)
    ELSE CreateOrUpdateEffect(o, st)

\* The write a step issues on store o (none when it finds nothing to do).
StepWrites(o, st, ok) ==
    IF st.kind = "apply" THEN <<Write("apply", st.key, ok)>>
    ELSE IF st.kind = "ensure"
         THEN IF o[st.key].exists THEN <<>> ELSE <<Write("create", st.key, ok)>>
    ELSE IF ~o[st.key].exists THEN <<Write("create", st.key, ok)>>
    ELSE IF o[st.key].data = st.obj.data /\ st.key # ConfigSecretKey THEN <<>>
    ELSE <<Write("update", st.key, ok)>>

\* Steps 1..m of a function all succeed.
RECURSIVE StoreAfter(_, _, _)
StoreAfter(o, steps, m) ==
    IF m = 0 THEN o ELSE StepEffect(StoreAfter(o, steps, m - 1), steps[m])

RECURSIVE WritesAfter(_, _, _)
WritesAfter(o, steps, m) ==
    IF m = 0 THEN <<>>
    ELSE WritesAfter(o, steps, m - 1)
         \o StepWrites(StoreAfter(o, steps, m - 1), steps[m], TRUE)

\* k = 0: every step succeeds; k > 0: step k fails and the function
\* returns its error without running the later steps.
Succeeded(steps, k) == IF k = 0 THEN Len(steps) ELSE k - 1
RunStore(o, steps, k) == StoreAfter(o, steps, Succeeded(steps, k))
RunWrites(o, steps, k) ==
    WritesAfter(o, steps, Succeeded(steps, k))
    \o SeqIf(k > 0, StepWrites(RunStore(o, steps, k), steps[IF k = 0 THEN 1 ELSE k], FALSE))

\* Whether one more disturbance may happen; the step of a function that
\* may fail (0: none).
MayDisturb == IF disturbances > 0 THEN {TRUE, FALSE} ELSE {FALSE}
MayFail == MayDisturb
FailPoints(n) == IF disturbances > 0 THEN 0..n ELSE {0}

\* meta.SetStatusCondition / meta.RemoveStatusCondition: upsert by type.
SetStatusCondition(conds, type, status, reason) ==
    IF \E k \in 1..Len(conds) : conds[k].type = type
    THEN [k \in 1..Len(conds) |->
            IF conds[k].type = type
            THEN [type |-> type, status |-> status, reason |-> reason]
            ELSE conds[k]]
    ELSE Append(conds, [type |-> type, status |-> status, reason |-> reason])

RemoveStatusCondition(conds, type) ==
    SelectSeq(conds, LAMBDA c : c.type # type)

----------------------------------------------------------------------------
\* The environment: users, the API server, the garbage collector, the
\* StatefulSet controller, and other actors of the namespace.

InitCluster ==
    /\ env = AllImagesEnv
    /\ vimmich = [name |-> CRName, spec |-> DefaultSpec]
    /\ verr = <<"pending">>
    /\ vimages = <<"pending">>
    /\ fin = <<>>
    /\ fout = <<>>
    /\ cr = NoCR
    /\ objs = [k \in ObjKeys |-> Absent]
    /\ pc = "idle"
    /\ immich = NoCR
    /\ stale = FALSE
    /\ reconcileErr = NoErr
    /\ writes = <<>>
    /\ result = NoResult
    /\ finalizerPersisted = {}
    /\ nextUid = 1
    /\ generated = 0
    /\ quiet = "no"

Init == InitCluster /\ disturbances = MaxDisturbances

\* What the pass keeps to itself.
passvars == <<pc, immich, reconcileErr, finalizerPersisted, generated>>

\* Someone other than the reconciler acts: the record of the last pass
\* (result, writes) is about a cluster that is no more, and the quiet
\* period ends.
ClusterChanged ==
    /\ writes' = IF pc = "idle" THEN <<>> ELSE writes
    /\ result' = IF pc = "idle" THEN NoResult ELSE result
    /\ quiet' = "no"

\* The stored CR changes: a pass that read it earlier holds a stale copy.
CRChanged ==
    /\ ClusterChanged
    /\ stale' = (pc # "idle")

\* kubectl apply of a new CR named CRName.
CreateCR ==
    /\ ~cr.exists
    /\ nextUid <= MaxIncarnations
    /\ \E s \in LifecycleSpecs, foreign \in MayDisturb :
         /\ cr' = [NoCR EXCEPT !.exists = TRUE, !.uid = nextUid, !.generation = 1,
                               !.spec = s, !.foreign = foreign]
         /\ disturbances' = disturbances - B2N(foreign)
    /\ nextUid' = nextUid + 1
    /\ CRChanged
    /\ UNCHANGED <<env, vvars, objs, passvars>>

\* The edits users make: repair the invalid spec, turn the built-in
\* components back on, customise, break the spec.
SpecEdit(s) ==
    CASE s = ExternalDBNoHostSpec -> ExternalSpec
      [] s = ExternalSpec -> DefaultSpec
      [] s = DefaultSpec -> CustomSpec
      [] s = CustomSpec -> ExternalDBNoHostSpec

\* An edit of the spec of the live CR: the generation advances.
UpdateSpec ==
    /\ cr.exists /\ ~cr.deleting
    /\ disturbances > 0
    /\ cr' = [cr EXCEPT !.spec = SpecEdit(cr.spec), !.generation = @ + 1]
    /\ disturbances' = disturbances - 1
    /\ CRChanged
    /\ UNCHANGED <<env, vvars, objs, passvars, nextUid>>

\* kubectl delete: the deletion timestamp is set while a finalizer holds
\* the CR, else the CR is gone.
DeleteCR ==
    /\ cr.exists /\ ~cr.deleting
    /\ cr' = IF cr.finalizer \/ cr.foreign THEN [cr EXCEPT !.deleting = TRUE]
             ELSE NoCR
    /\ CRChanged
    /\ UNCHANGED <<env, vvars, objs, passvars, nextUid, disturbances>>

\* Another controller removes its own finalizer from the deleted CR.
ForeignFinalizerRemoved ==
    /\ cr.exists /\ cr.deleting /\ cr.foreign
    /\ cr' = IF cr.finalizer THEN [cr EXCEPT !.foreign = FALSE] ELSE NoCR
    /\ CRChanged
    /\ UNCHANGED <<env, vvars, objs, passvars, nextUid, disturbances>>

\* Cascading deletion: the objects whose owner is not a stored CR go.
Orphaned(o) ==
    {k \in ObjKeys : o[k].exists /\ o[k].owner # 0
                     /\ ~(cr.exists /\ cr.uid = o[k].owner)}
GarbageCollect ==
    /\ Orphaned(objs) # {}
    /\ objs' = [k \in ObjKeys |-> IF k \in Orphaned(objs) THEN Absent ELSE objs[k]]
    /\ ClusterChanged
    /\ UNCHANGED <<env, vvars, cr, stale, passvars, nextUid, disturbances>>

\* The StatefulSet controller creates the claim of the volume claim
\* template; the claim has no owner and outlives the StatefulSet.
StatefulSetController ==
    /\ objs[PostgresStatefulSet].exists
    /\ ~objs[PostgresDataPVC].exists
    /\ objs' = [objs EXCEPT ![PostgresDataPVC] =
                   NewObject(0, 0, <<"storage", "10Gi", "ReadWriteOnce">>)]
    /\ ClusterChanged
    /\ UNCHANGED <<env, vvars, cr, stale, passvars, nextUid, disturbances>>

\* Someone else creates an object under the name of a durable object.
ExternalObject == NewObject(0, 0, <<"external">>)
ExternalCreate ==
    /\ disturbances > 0
    /\ \E k \in {LibraryPVC, PostgresCredentials} :
         /\ ~objs[k].exists
         /\ objs' = [objs EXCEPT ![k] = ExternalObject]
    /\ disturbances' = disturbances - 1
    /\ ClusterChanged
    /\ UNCHANGED <<env, vvars, cr, stale, passvars, nextUid>>

----------------------------------------------------------------------------
\* One reconcile pass.

\* quiet = "pass": a pass is running and nobody else has acted since it
\* started; "settled": the last pass was clean and nobody else has acted
\* since it started; "second": a pass started from "settled" is running;
\* "no": otherwise.
Quiet == {"no", "pass", "settled", "second"}

envvars == <<env, vvars, nextUid>>

\* The pass returns: its locals (the in-memory CR, the collected error) die.
\* A clean pass nobody interfered with leaves the cluster settled.
Return(requeue, err, branch) ==
    /\ result' = [requeue |-> requeue, err |-> err, branch |-> branch,
                   cause |-> IF branch = "component-error" THEN reconcileErr ELSE NoErr]
    /\ pc' = "idle"
    /\ immich' = NoCR
    /\ reconcileErr' = NoErr
    /\ stale' = FALSE
    /\ quiet' = IF branch = "reconciled" /\ quiet # "no" THEN "settled" ELSE "no"

\* r.Update / r.Status().Update of the CR succeed when the API call does
\* not fail and the stored CR is the object the pass read.
CRWritable == cr.exists /\ cr.uid = immich.uid /\ ~stale

\* Reconcile: fetch the Immich instance.
Fetch ==
    /\ pc = "idle"
    /\ writes' = <<>>
    /\ \E fail \in MayFail :
         /\ disturbances' = disturbances - B2N(fail)
         /\ IF fail THEN Return("none", TRUE, "get-failed")
            ELSE IF ~cr.exists THEN Return("none", FALSE, "not-found")
            ELSE /\ immich' = cr
                 /\ pc' = "fetched"
                 /\ reconcileErr' = NoErr
                 /\ stale' = FALSE
                 /\ quiet' = IF quiet = "settled" THEN "second" ELSE "pass"
                 /\ UNCHANGED result
    /\ UNCHANGED <<envvars, cr, objs, finalizerPersisted, generated>>

\* A finalize hook that fails.
finalizeImmichFails(i) == TRUE

\* finalizeImmich: nothing to clean up, the error is always nil.
finalizeImmich(i) == FALSE

\* Reconcile: handle deletion.
HandleDeletion ==
    /\ pc = "fetched"
    /\ immich.deleting
    /\ IF immich.finalizer
       THEN IF finalizeImmich(immich)
            THEN /\ Return("none", TRUE, "finalize-failed")
                 /\ UNCHANGED <<cr, writes, disturbances>>
            ELSE \E fail \in MayFail :
                   LET ok == ~fail /\ CRWritable
                   IN /\ writes' = Append(writes, Write("update", "Immich/" \o CRName, ok))
                      /\ disturbances' = disturbances - B2N(fail)
                      /\ cr' = IF ~ok THEN cr
                               ELSE IF cr.foreign THEN [cr EXCEPT !.finalizer = FALSE]
                               ELSE NoCR
                      /\ Return("none", ~ok, "finalized")
       ELSE /\ Return("none", FALSE, "deleted")
            /\ UNCHANGED <<cr, writes, disturbances>>
    /\ UNCHANGED <<envvars, objs, finalizerPersisted, generated>>

\* A pass that goes on with the components without the finalizer.
AddFinalizerSkipped ==
    /\ pc = "fetched"
    /\ ~immich.deleting
    /\ ~immich.finalizer
    /\ pc' = "library"
    /\ UNCHANGED <<envvars, cr, objs, immich, stale, reconcileErr, writes, result,
                   finalizerPersisted, disturbances, generated, quiet>>

\* Reconcile: add the finalizer if not present.
AddFinalizer ==
    /\ pc = "fetched"
    /\ ~immich.deleting
    /\ ~immich.finalizer
    /\ \E fail \in MayFail :
         LET ok == ~fail /\ CRWritable
         IN /\ writes' = Append(writes, Write("update", "Immich/" \o CRName, ok))
            /\ disturbances' = disturbances - B2N(fail)
            /\ cr' = IF ok THEN [cr EXCEPT !.finalizer = TRUE] ELSE cr
            /\ finalizerPersisted' = IF ok THEN finalizerPersisted \cup {cr.uid}
                                     ELSE finalizerPersisted
            /\ IF ok THEN Return("immediate", FALSE, "finalizer-added")
               ELSE Return("none", TRUE, "finalizer-added")
    /\ UNCHANGED <<envvars, objs, generated>>

\* Reconcile: initialise the conditions and set Progressing.
SetProgressing(i) ==
    [i EXCEPT !.status.conditions =
        SetStatusCondition(@, "Progressing", "True", "Reconciling")]

\* The validation gate of a normal pass: an invalid spec sets Degraded,
\* marks the instance not ready, persists the status and asks for a retry
\* after 30 seconds; nothing else happens in the pass.
MarkDegraded(i) ==
    [i EXCEPT !.status.conditions =
                  SetStatusCondition(@, "Degraded", "True", "ValidationFailed"),
              !.status.ready = FALSE]

ValidateSpec ==
    /\ pc = "fetched"
    /\ ~immich.deleting
    /\ immich.finalizer
    /\ IF validateImages(immich) # NoError
       THEN \E fail \in MayFail :
              LET ok == ~fail /\ CRWritable
                  i == MarkDegraded(SetProgressing(immich))
              IN /\ writes' = Append(writes, Write("status", "Immich/" \o CRName, ok))
                 /\ disturbances' = disturbances - B2N(fail)
                 /\ cr' = IF ok THEN [cr EXCEPT !.status = i.status] ELSE cr
                 /\ Return("30s", TRUE, "invalid")
       ELSE /\ immich' = SetProgressing(immich)
            /\ pc' = "library"
            /\ UNCHANGED <<cr, writes, disturbances, result, stale, reconcileErr, quiet>>
    /\ UNCHANGED <<envvars, objs, finalizerPersisted, generated>>

\* A pass that gives up on the later components after the first error.
RunComponentShortCircuit(steps, next) ==
    /\ pc' = next
    /\ IF reconcileErr # NoErr
       THEN UNCHANGED <<objs, writes, disturbances, reconcileErr>>
       ELSE \E k \in FailPoints(Len(steps)) :
               /\ objs' = RunStore(objs, steps, k)
               /\ writes' = writes \o RunWrites(objs, steps, k)
               /\ disturbances' = disturbances - B2N(k > 0)
               /\ reconcileErr' = IF k > 0 THEN pc ELSE reconcileErr

\* A component function that runs the steps in order and returns the
\* first error; the pass records the error and goes on to the next
\* component.
RunComponent(steps, next) ==
    \E k \in FailPoints(Len(steps)) :
        /\ objs' = RunStore(objs, steps, k)
        /\ writes' = writes \o RunWrites(objs, steps, k)
        /\ disturbances' = disturbances - B2N(k > 0)
        /\ reconcileErr' = IF k > 0 THEN pc ELSE reconcileErr
        /\ pc' = next

SkipComponent(next) ==
    /\ pc' = next
    /\ UNCHANGED <<objs, writes, disturbances, reconcileErr>>

\* The library step of a normal pass: reconcileLibraryPVC when the
\* operator manages the library volume.
LibraryNeeded(i) == ShouldCreateLibraryPVC(i)

\* reconcileLibraryPVC, the existence check (r.Get).
ReconcileLibraryCheck ==
    /\ pc = "library"
    /\ IF ~LibraryNeeded(immich)
       THEN SkipComponent("config")
       ELSE \E fail \in MayFail :
              /\ disturbances' = disturbances - B2N(fail)
              /\ reconcileErr' = IF fail THEN pc ELSE reconcileErr
              /\ pc' = IF fail \/ objs[LibraryPVC].exists
                       THEN "config" ELSE "library-create"
              /\ UNCHANGED <<objs, writes>>
    /\ UNCHANGED <<envvars, cr, immich, stale, result, finalizerPersisted, generated, quiet>>

\* A create that replaces the object someone created since the check.
CreateAfterCheckOverwrite(key, obj, next, onError) ==
    \E fail \in MayFail :
        LET ok == ~fail
        IN /\ writes' = Append(writes, Write("create", key, ok))
           /\ disturbances' = disturbances - B2N(fail)
           /\ objs' = IF ok THEN [objs EXCEPT ![key] = obj] ELSE objs
           /\ reconcileErr' = IF ~ok THEN pc ELSE reconcileErr
           /\ pc' = IF ok THEN next ELSE onError

\* r.Create of an object whose Get returned not-found: AlreadyExists when
\* someone created it in between.
CreateAfterCheck(key, obj, next, onError) ==
    \E fail \in MayFail :
        LET ok == ~fail /\ ~objs[key].exists
        IN /\ writes' = Append(writes, Write("create", key, ok))
           /\ disturbances' = disturbances - B2N(fail)
           /\ objs' = IF ok THEN [objs EXCEPT ![key] = obj] ELSE objs
           /\ reconcileErr' = IF ~ok THEN pc ELSE reconcileErr
           /\ pc' = IF ok THEN next ELSE onError

\* reconcileLibraryPVC, the creation (r.Create).
ReconcileLibraryCreate ==
    /\ pc = "library-create"
    /\ CreateAfterCheck(LibraryPVC, LibraryPVCObject(immich), "config", "config")
    /\ UNCHANGED <<envvars, cr, immich, stale, result, finalizerPersisted, generated, quiet>>

\* reconcileImmichConfig: one ConfigMap or Secret through createOrUpdate.
ConfigKey(i) ==
    IF GetConfigurationKind(i) = "Secret" THEN ConfigSecretKey ELSE ConfigMapKey

reconcileImmichConfig(i) == <<Step("createOrUpdate", ConfigKey(i), ConfigObject(i))>>

ReconcileConfig ==
    /\ pc = "config"
    /\ RunComponent(reconcileImmichConfig(immich), "postgres")
    /\ UNCHANGED <<envvars, cr, immich, stale, result, finalizerPersisted, generated, quiet>>

\* The database step of a normal pass: reconcilePostgres when enabled.
PostgresNeeded(i) == IsPostgresEnabled(i)

\* reconcilePostgresCredentials without the existence check.
PostgresCredentialsCheckAlwaysCreate ==
    /\ pc = "postgres"
    /\ IF ~PostgresNeeded(immich)
       THEN SkipComponent("valkey")
       ELSE IF immich.spec.postgres.passwordSecretRef # Nil
       THEN SkipComponent("postgres-workload")
       ELSE /\ pc' = "postgres-create"
            /\ UNCHANGED <<objs, writes, disturbances, reconcileErr>>
    /\ UNCHANGED <<envvars, cr, immich, stale, result, finalizerPersisted, generated, quiet>>

\* reconcilePostgresCredentials, the existence check (r.Get); skipped
\* when the user supplies the password Secret.
PostgresCredentialsCheck ==
    /\ pc = "postgres"
    /\ IF ~PostgresNeeded(immich)
       THEN SkipComponent("valkey")
       ELSE IF immich.spec.postgres.passwordSecretRef # Nil
       THEN SkipComponent("postgres-workload")
       ELSE \E fail \in MayFail :
              /\ disturbances' = disturbances - B2N(fail)
              /\ reconcileErr' = IF fail THEN pc ELSE reconcileErr
              /\ pc' = IF fail THEN "valkey"
                       ELSE IF objs[PostgresCredentials].exists
                            THEN "postgres-workload" ELSE "postgres-create"
              /\ UNCHANGED <<objs, writes>>
    /\ UNCHANGED <<envvars, cr, immich, stale, result, finalizerPersisted, generated, quiet>>

\* reconcilePostgresCredentials: generateRandomPassword, then r.Create.
PostgresCredentialsCreate ==
    /\ pc = "postgres-create"
    /\ generated' = generated + 1
    /\ CreateAfterCheck(PostgresCredentials,
                        PostgresCredentialsObject(
                            immich,
                            generateRandomPassword(
                                PasswordLength,
                                randRead(generated', PasswordLength)).password),
                        "postgres-workload", "valkey")
    /\ UNCHANGED <<envvars, cr, immich, stale, result, finalizerPersisted, quiet>>

\* reconcilePostgres after the credentials: StatefulSet, then Service.
reconcilePostgresWorkload(i) ==
    <<Step("apply", PostgresStatefulSet, PostgresStatefulSetObject(i)),
      Step("apply", PostgresService, PostgresServiceObject(i))>>

ReconcilePostgresWorkload ==
    /\ pc = "postgres-workload"
    /\ RunComponent(reconcilePostgresWorkload(immich), "valkey")
    /\ UNCHANGED <<envvars, cr, immich, stale, result, finalizerPersisted, generated, quiet>>

reconcileValkey(i) ==
    SeqIf(i.spec.valkey.persistenceEnabled = "true",
          <<Step("ensure", ValkeyPVC, ValkeyPVCObject(i))>>)
    \o <<Step("apply", ValkeyDeployment, ValkeyDeploymentObject(i)),
         Step("apply", ValkeyService, ValkeyServiceObject(i))>>

\* A pass that deletes the objects of the cache when it is disabled.
ReconcileValkeyPrune ==
    /\ pc = "valkey"
    /\ IF IsValkeyEnabled(immich)
       THEN RunComponent(reconcileValkey(immich), "ml")
       ELSE /\ objs' = [k \in ObjKeys |->
                           IF k \in {ValkeyPVC, ValkeyDeployment, ValkeyService}
                           THEN Absent ELSE objs[k]]
            /\ pc' = "ml"
            /\ UNCHANGED <<writes, disturbances, reconcileErr>>
    /\ UNCHANGED <<envvars, cr, immich, stale, result, finalizerPersisted, generated, quiet>>

ReconcileValkey ==
    /\ pc = "valkey"
    /\ IF IsValkeyEnabled(immich)
       THEN RunComponent(reconcileValkey(immich), "ml")
       ELSE SkipComponent("ml")
    /\ UNCHANGED <<envvars, cr, immich, stale, result, finalizerPersisted, generated, quiet>>

\* A machine-learning function that applies the Service of the cache after
\* its own objects.
reconcileMachineLearningThenCache(i) ==
    SeqIf(i.spec.machineLearning.persistenceEnabled # "false",
          <<Step("ensure", MLPVC, MLPVCObject(i))>>)
    \o <<Step("apply", MLDeployment, MLDeploymentObject(i)),
         Step("apply", MLService, MLServiceObject(i)),
         Step("apply", ValkeyService, ValkeyServiceObject(i))>>

reconcileMachineLearning(i) ==
    SeqIf(i.spec.machineLearning.persistenceEnabled # "false",
          <<Step("ensure", MLPVC, MLPVCObject(i))>>)
    \o <<Step("apply", MLDeployment, MLDeploymentObject(i)),
         Step("apply", MLService, MLServiceObject(i))>>

ReconcileMachineLearning ==
    /\ pc = "ml"
    /\ IF IsMachineLearningEnabled(immich)
       THEN RunComponent(reconcileMachineLearning(immich), "server")
       ELSE SkipComponent("server")
    /\ UNCHANGED <<envvars, cr, immich, stale, result, finalizerPersisted, generated, quiet>>

reconcileServer(i) ==
    <<Step("apply", ServerDeployment, ServerDeploymentObject(i)),
      Step("apply", ServerService, ServerServiceObject(i))>>
    \o SeqIf(ShouldCreateRoute(i, IsRouteAPIAvailable),
             <<Step("apply", ServerRoute, ServerRouteObject(i))>>)
    \o SeqIf(IsIngressEnabled(i),
             <<Step("apply", ServerIngress, ServerIngressObject(i))>>)

ReconcileServer ==
    /\ pc = "server"
    /\ IF IsServerEnabled(immich)
       THEN RunComponent(reconcileServer(immich), "status")
       ELSE SkipComponent("status")
    /\ UNCHANGED <<envvars, cr, immich, stale, result, finalizerPersisted, generated, quiet>>

\* updateStatus: a disabled component is ready, an enabled one is ready
\* when its workload exists and all its replicas are ready.
WorkloadOf(c) ==
    CASE c = "server" -> ServerDeployment
      [] c = "machine-learning" -> MLDeployment
      [] c = "valkey" -> ValkeyDeployment
      [] c = "postgres" -> PostgresStatefulSet

ComponentEnabled(i, c) ==
    CASE c = "server" -> IsServerEnabled(i)
      [] c = "machine-learning" -> IsMachineLearningEnabled(i)
      [] c = "valkey" -> IsValkeyEnabled(i)
      [] c = "postgres" -> IsPostgresEnabled(i)

\* updateStatus that takes an absent workload for a ready one.
ComponentReadyWhenAbsent(i, o, replicasReady, c) ==
    IF ComponentEnabled(i, c)
    THEN ~o[WorkloadOf(c)].exists \/ c \in replicasReady
    ELSE TRUE

ComponentReady(i, o, replicasReady, c) ==
    IF ComponentEnabled(i, c)
    THEN o[WorkloadOf(c)].exists /\ c \in replicasReady
    ELSE TRUE

updateStatus(i, o, replicasReady) ==
    [i EXCEPT !.status.serverReady = ComponentReady(i, o, replicasReady, "server"),
              !.status.machineLearningReady =
                  ComponentReady(i, o, replicasReady, "machine-learning"),
              !.status.valkeyReady = ComponentReady(i, o, replicasReady, "valkey"),
              !.status.postgresReady = ComponentReady(i, o, replicasReady, "postgres"),
              !.status.ready = \A c \in Components :
                                  ComponentReady(i, o, replicasReady, c)]

\* What the workload controllers report: the components whose replicas
\* are all ready.
ReadinessObservations == {Components, {"server", "valkey"}}

\* SetReady that leaves Progressing in place when ready.
SetReadyKeepsProgressing(i) ==
    [i EXCEPT !.status.conditions =
                  IF i.status.ready
                  THEN SetStatusCondition(@, "Ready", "True", "AllComponentsReady")
                  ELSE SetStatusCondition(@, "Ready", "False", "ComponentsNotReady"),
              !.status.observedGeneration = i.generation]

\* SetReady that leaves the Ready condition out.
SetReadyNoCondition(i) ==
    [i EXCEPT !.status.observedGeneration = i.generation]

\* Reconcile: the Ready condition, observedGeneration.
SetReady(i) ==
    [i EXCEPT !.status.conditions =
                  IF i.status.ready
                  THEN RemoveStatusCondition(
                           SetStatusCondition(@, "Ready", "True", "AllComponentsReady"),
                           "Progressing")
                  ELSE SetStatusCondition(@, "Ready", "False", "ComponentsNotReady"),
              !.status.observedGeneration = i.generation]

\* updateStatus looks up the workloads of the enabled components only: a
\* lookup can fail when there is one.
LookupMayFail(i) ==
    IF \E c \in Components : ComponentEnabled(i, c) THEN MayFail ELSE {FALSE}

\* Reconcile from updateStatus to the end of the pass.
UpdateStatus ==
    /\ pc = "status"
    /\ \E fail \in LookupMayFail(immich), replicasReady \in ReadinessObservations :
         IF fail
         THEN /\ disturbances' = disturbances - 1
              /\ Return("none", TRUE, "status-lookup-failed")
              /\ UNCHANGED <<cr, writes>>
         ELSE LET i == SetReady(updateStatus(immich, objs, replicasReady))
              IN IF reconcileErr # NoErr
                 THEN /\ Return("30s", TRUE, "component-error")
                      /\ UNCHANGED <<cr, writes, disturbances>>
                 ELSE \E failUpdate \in MayFail :
                        LET ok == ~failUpdate /\ CRWritable
                        IN /\ writes' = Append(writes, Write("status", "Immich/" \o CRName, ok))
                           /\ disturbances' = disturbances - B2N(failUpdate)
                           /\ cr' = IF ok THEN [cr EXCEPT !.status = i.status] ELSE cr
                           /\ IF ok THEN Return("5m", FALSE, "reconciled")
                              ELSE Return("none", TRUE, "status-update-failed")
    /\ UNCHANGED <<envvars, objs, finalizerPersisted, generated>>

Next ==
    \/ CreateCR
    \/ UpdateSpec
    \/ DeleteCR
    \/ ForeignFinalizerRemoved
    \/ GarbageCollect
    \/ StatefulSetController
    \/ ExternalCreate
    \/ Fetch
    \/ HandleDeletion
    \/ AddFinalizer
    \/ ValidateSpec
    \/ ReconcileLibraryCheck
    \/ ReconcileLibraryCreate
    \/ ReconcileConfig
    \/ PostgresCredentialsCheck
    \/ PostgresCredentialsCreate
    \/ ReconcilePostgresWorkload
    \/ ReconcileValkey
    \/ ReconcileMachineLearning
    \/ ReconcileServer
    \/ UpdateStatus

Spec == Init /\ [][Next]_vars

\* The steps of a pass on a CR that is not being deleted.
Pass ==
    \/ Fetch
    \/ AddFinalizer
    \/ ValidateSpec
    \/ ReconcileLibraryCheck
    \/ ReconcileLibraryCreate
    \/ ReconcileConfig
    \/ PostgresCredentialsCheck
    \/ PostgresCredentialsCreate
    \/ ReconcilePostgresWorkload
    \/ ReconcileValkey
    \/ ReconcileMachineLearning
    \/ ReconcileServer
    \/ UpdateStatus

\* The cluster of a CR that is never deleted.
NextLive ==
    \/ CreateCR
    \/ UpdateSpec
    \/ StatefulSetController
    \/ ExternalCreate
    \/ Pass

\* The controller runtime calls Reconcile again after every returned error,
\* after every re-invocation request and on every change of the CR or of
\* an object it owns, and a pass runs to its end: the reconciler is never
\* stopped for good while it has a step to take.  The StatefulSet
\* controller is not stopped for good either.
SpecLive ==
    /\ Init /\ [][NextLive]_vars
    /\ WF_vars(Pass)
    /\ WF_vars(StatefulSetController)

\* The runs of a CR that is never deleted in which up to
\* MaxPassDisturbances things go wrong.
InitPass == InitCluster /\ disturbances = MaxPassDisturbances

SpecPass == InitPass /\ [][NextLive]_vars

----------------------------------------------------------------------------
\* The pure functions applied to every bounded input.

ValidationInputs == { s \in ImmichSpecs : SetFieldCount(s) <= MaxSetFields }

InitValidate ==
    /\ env \in Envs
    /\ vimmich \in { [name |-> CRName, spec |-> s] : s \in ValidationInputs }
    /\ verr = <<"pending">>
    /\ vimages = <<"pending">>
    /\ fin = <<>>
    /\ fout = <<>>
    /\ cr = NoCR
    /\ objs = [k \in ObjKeys |-> Absent]
    /\ pc = "idle"
    /\ immich = NoCR
    /\ stale = FALSE
    /\ reconcileErr = NoErr
    /\ writes = <<>>
    /\ result = NoResult
    /\ finalizerPersisted = {}
    /\ nextUid = 1
    /\ disturbances = MaxDisturbances
    /\ generated = 0
    /\ quiet = "no"

\* validateImages and the four image accessors on the same object.
CallValidateImages ==
    /\ verr = <<"pending">>
    /\ verr' = validateImages(vimmich)
    /\ vimages' = [c \in Components |->
                     CASE c = "server" -> GetServerImage(vimmich)
                       [] c = "machine-learning" -> GetMachineLearningImage(vimmich)
                       [] c = "valkey" -> GetValkeyImage(vimmich)
                       [] c = "postgres" -> GetPostgresImage(vimmich)]
    /\ UNCHANGED <<env, vimmich, fin, fout, lvars>>

NextValidate == CallValidateImages

SpecValidate == InitValidate /\ [][NextValidate]_vars

----------------------------------------------------------------------------
\* The other pure functions are called on the arguments in fin, once; no
\* CR, no cluster, no pass.

NoLifecycle ==
    /\ env = AllImagesEnv
    /\ vimmich = [name |-> CRName, spec |-> DefaultSpec]
    /\ verr = <<"pending">>
    /\ vimages = <<"pending">>
    /\ cr = NoCR
    /\ objs = [k \in ObjKeys |-> Absent]
    /\ pc = "idle"
    /\ immich = NoCR
    /\ stale = FALSE
    /\ reconcileErr = NoErr
    /\ writes = <<>>
    /\ result = NoResult
    /\ finalizerPersisted = {}
    /\ nextUid = 1
    /\ disturbances = MaxDisturbances
    /\ generated = 0
    /\ quiet = "no"

\* What a call of a pure function leaves alone.
callvars == <<env, vimmich, verr, vimages, fin, lvars>>

Called == Len(fout) = 1

\* A live CR with the given spec.
ImmichWith(s) == [NoCR EXCEPT !.exists = TRUE, !.uid = 1, !.generation = 1,
                              !.finalizer = TRUE, !.spec = s]

----------------------------------------------------------------------------
\* updateStatus and updateURLStatus.

\* The largest replica count of a workload.
MaxReplicas == 2

\* A workload as r.Get gives it: not found, or found with the replica
\* counts of its status.
NotFound == [found |-> FALSE, replicas |-> 0, readyReplicas |-> 0]
WorkloadStates ==
    {NotFound} \cup
    { w \in [found : {TRUE}, replicas : 0..MaxReplicas,
             readyReplicas : 0..MaxReplicas] : w.readyReplicas <= w.replicas }

\* A workload counts as ready when it has a ready replica.
ReplicasReadyAny(w) == w.readyReplicas > 0

\* updateStatus: ReadyReplicas > 0 && ReadyReplicas == Replicas.
ReplicasReady(w) == w.readyReplicas > 0 /\ w.readyReplicas = w.replicas

\* The store and the observation updateStatus works on, from the
\* workloads r.Get gives.
StoreOf(workloads) ==
    [k \in ObjKeys |->
        IF \E c \in Components : WorkloadOf(c) = k /\ workloads[c].found
        THEN NewObject(1, 1, <<>>) ELSE Absent]
ReadyOf(workloads) == {c \in Components : ReplicasReady(workloads[c])}

EnabledSpec(e) ==
    [DefaultSpec EXCEPT !.server.enabled = e["server"],
                        !.machineLearning.enabled = e["machine-learning"],
                        !.valkey.enabled = e["valkey"],
                        !.postgres.enabled = e["postgres"]]

StatusInputs ==
    { [fn |-> "updateStatus", immich |-> ImmichWith(EnabledSpec(e)), workloads |-> w] :
        e \in [Components -> {"true", "false"}] \cup {[c \in Components |-> Nil]},
        w \in [Components -> WorkloadStates] }

CallUpdateStatus ==
    /\ fin.fn = "updateStatus"
    /\ ~Called
    /\ fout' = <<updateStatus(fin.immich, StoreOf(fin.workloads),
                              ReadyOf(fin.workloads)).status>>
    /\ UNCHANGED callvars

\* A Route and an Ingress as r.Get gives them: an error, not found, or
\* found with the fields the URL is derived from.
GetOutcomes == {"found", "notfound", "error"}
HostValues(h) == {"", h}
RouteStates ==
    { r \in [get : GetOutcomes,
             statusHost : HostValues("immich.apps.example.com"),
             specHost : HostValues("photos.example.com"),
             tls : BOOLEAN] :
        r.get # "found" => (r.statusHost = "" /\ r.specHost = "" /\ ~r.tls) }
LoadBalancerEntries ==
    [hostname : HostValues("lb.example.com"), ip : HostValues("192.0.2.10")]
IngressStates ==
    { g \in [get : GetOutcomes,
             loadBalancer : {<<>>} \cup { <<l>> : l \in LoadBalancerEntries },
             rules : {<<>>} \cup { <<[host |-> h]>> : h \in HostValues("immich.example.com") },
             tls : BOOLEAN] :
        g.get # "found" => (g.loadBalancer = <<>> /\ g.rules = <<>> /\ ~g.tls) }

\* getRouteHost with the declared host before the assigned one.
getRouteHostSpecFirst(route) ==
    IF route.specHost # "" THEN route.specHost ELSE route.statusHost

\* getRouteHost: status.ingress[0].host, else spec.host.
getRouteHost(route) ==
    IF route.statusHost # "" THEN route.statusHost ELSE route.specHost

\* getIngressHost: the first load-balancer entry's hostname, else its IP,
\* else the host of the first rule.
getIngressHost(ingress) ==
    IF Len(ingress.loadBalancer) > 0 /\ ingress.loadBalancer[1].hostname # ""
    THEN ingress.loadBalancer[1].hostname
    ELSE IF Len(ingress.loadBalancer) > 0 /\ ingress.loadBalancer[1].ip # ""
    THEN ingress.loadBalancer[1].ip
    ELSE IF Len(ingress.rules) > 0 /\ ingress.rules[1].host # ""
    THEN ingress.rules[1].host
    ELSE ""

Protocol(tls) == IF tls THEN "https" ELSE "http"

\* updateURLStatus: the error it returns and Status.URL after it.
updateURLStatus(i, routeAPIAvailable, route, ingress) ==
    IF ShouldCreateRoute(i, routeAPIAvailable) /\ route.get = "error"
    THEN [err |-> TRUE, url |-> i.status.url]
    ELSE IF ShouldCreateRoute(i, routeAPIAvailable) /\ route.get = "found"
            /\ getRouteHost(route) # ""
    THEN [err |-> FALSE, url |-> Protocol(route.tls) \o "://" \o getRouteHost(route)]
    ELSE IF IsIngressEnabled(i) /\ ingress.get = "error"
    THEN [err |-> TRUE, url |-> i.status.url]
    ELSE IF IsIngressEnabled(i) /\ ingress.get = "found" /\ getIngressHost(ingress) # ""
    THEN [err |-> FALSE, url |-> Protocol(ingress.tls) \o "://" \o getIngressHost(ingress)]
    ELSE [err |-> FALSE, url |-> ""]

ExposureSpec(routeEnabled, ingressEnabled) ==
    [DefaultSpec EXCEPT !.server.routeEnabled = routeEnabled,
                        !.server.ingressEnabled = ingressEnabled]

URLInputs ==
    { [fn |-> "updateURLStatus",
       immich |-> [ImmichWith(ExposureSpec(re, ie)) EXCEPT !.status.url = old],
       routeAPIAvailable |-> a, route |-> r, ingress |-> g] :
        re \in EnabledValues, ie \in EnabledValues,
        old \in HostValues("https://earlier.example.com"),
        a \in BOOLEAN, r \in RouteStates, g \in IngressStates }

CallUpdateURLStatus ==
    /\ fin.fn = "updateURLStatus"
    /\ ~Called
    /\ fout' = <<updateURLStatus(fin.immich, fin.routeAPIAvailable,
                                 fin.route, fin.ingress)>>
    /\ UNCHANGED callvars

InitStatus ==
    /\ fin \in StatusInputs \cup URLInputs
    /\ fout = <<>>
    /\ NoLifecycle

NextStatus ==
    \/ CallUpdateStatus
    \/ CallUpdateURLStatus

SpecStatus == InitStatus /\ [][NextStatus]_vars

----------------------------------------------------------------------------
\* The configuration documents (map[string]interface{}) and their merge.

\* The nesting depth of the documents handed to the functions.
MaxDepth == 2

\* A value of a document: an absent key, null (Go nil), a scalar, a list
\* of values, or a nested map.  A map is a function on the keys of its
\* level; a key it does not hold maps to NoEntry.
NoEntry == [t |-> "none"]
Null == [t |-> "null"]
Scalar(v) == [t |-> "scalar", v |-> v]
List(es) == [t |-> "list", es |-> es]
Map(m) == [t |-> "map", m |-> m]

TopKeys == {"machineLearning", "trash"}
NestedKeys == {"enabled", "urls"}
KeysAt(depth) == IF depth = 1 THEN TopKeys ELSE NestedKeys

Get(m, k) == IF k \in DOMAIN m THEN m[k] ELSE NoEntry
Entries(m) == {k \in DOMAIN m : m[k].t # "none"}
EmptyMap(depth) == [k \in KeysAt(depth) |-> NoEntry]

Leaves(scalars) == {NoEntry, Null} \cup {Scalar(v) : v \in scalars}
RECURSIVE Maps(_, _)
Maps(leaves, depth) ==
    [KeysAt(depth) ->
        IF depth = MaxDepth THEN leaves
        ELSE leaves \cup {Map(m) : m \in Maps(leaves, depth + 1)}]
Documents(scalars) == Maps(Leaves(scalars), 1)

\* Lists: of scalars, and of maps one of which holds a null.
Lists ==
    {List(<<Scalar("user")>>),
     List(<<Map([EmptyMap(MaxDepth) EXCEPT !["enabled"] = Null,
                                          !["urls"] = Scalar("user")])>>)}
DocumentsWithLists == Maps(Leaves({"user"}) \cup Lists, 1)

\* removeNullValues: the map after the pass (the pass works in place).  A
\* value that is not a map, a list included, stays as it is.
RECURSIVE removeNullValues(_)
removeNullValues(m) ==
    [k \in DOMAIN m |->
        IF m[k].t = "null" THEN NoEntry
        ELSE IF m[k].t = "map"
             THEN LET nested == removeNullValues(m[k].m)
                  IN IF Entries(nested) = {} THEN NoEntry ELSE Map(nested)
        ELSE m[k]]

\* deepMergeMap: a new map, dst copied, then src merged in.
RECURSIVE deepMergeMap(_, _)
deepMergeMap(dst, src) ==
    [k \in DOMAIN dst \cup DOMAIN src |->
        LET v == Get(src, k)
            d == Get(dst, k)
        IN IF v.t = "none" \/ v.t = "null" THEN d
           ELSE IF v.t = "map"
                THEN IF d.t = "map" THEN Map(deepMergeMap(d.m, v.m)) ELSE v
           ELSE v]

\* applyMLConfigMap with enabled following the built-in component only.
applyMLConfigMapBuiltInOnly(i) ==
    [EmptyMap(1) EXCEPT !["machineLearning"] =
        Map([EmptyMap(2) EXCEPT
                !["enabled"] = Scalar(IF IsMachineLearningEnabled(i)
                                      THEN "true" ELSE "false"),
                !["urls"] = IF GetMachineLearningURL(i) # ""
                            THEN Scalar(GetMachineLearningURL(i)) ELSE NoEntry])]

\* applyMLConfigMap on the empty config: the operator-derived settings.
applyMLConfigMap(i) ==
    LET mlURL == GetMachineLearningURL(i)
        mlEnabled == IsMachineLearningEnabled(i) \/ i.spec.machineLearning.url # ""
    IN [EmptyMap(1) EXCEPT !["machineLearning"] =
           Map([EmptyMap(2) EXCEPT
                   !["enabled"] = Scalar(IF mlEnabled THEN "true" ELSE "false"),
                   !["urls"] = IF mlURL # "" THEN Scalar(mlURL) ELSE NoEntry])]

\* configSpecToMap: the user's configuration block as a map (marshalled and
\* unmarshalled), pruned.
configSpecToMap(configuration) == removeNullValues(configuration)

\* buildEffectiveConfigMap for a CR whose spec.immich.configuration is the
\* given block (<<>>: nil, <<block>> otherwise).
effectiveConfig(i, configuration) ==
    IF configuration # <<>>
    THEN deepMergeMap(applyMLConfigMap(i), configSpecToMap(configuration[1]))
    ELSE applyMLConfigMap(i)

MergeInputs ==
    { [fn |-> "deepMergeMap", dst |-> d, src |-> o] :
        d \in Documents({"base"}), o \in Documents({"user"}) }

PruneInputs ==
    { [fn |-> "removeNullValues", m |-> m] : m \in DocumentsWithLists }

MLSpec(enabled, url) ==
    [DefaultSpec EXCEPT !.machineLearning.enabled = enabled,
                        !.machineLearning.url = url]

ConfigInputs ==
    { [fn |-> "buildEffectiveConfigMap", immich |-> ImmichWith(MLSpec(e, u)),
       configuration |-> c] :
        e \in EnabledValues, u \in HostValues("http://external-ml.example.com:3003"),
        c \in {<<>>} \cup { <<o>> : o \in Documents({"user"}) } }

CallDeepMergeMap ==
    /\ fin.fn = "deepMergeMap"
    /\ ~Called
    /\ fout' = <<deepMergeMap(fin.dst, fin.src)>>
    /\ UNCHANGED callvars

\* removeNullValues, and removeNullValues again on what it left.
CallRemoveNullValues ==
    /\ fin.fn = "removeNullValues"
    /\ ~Called
    /\ fout' = <<[once |-> removeNullValues(fin.m),
                  twice |-> removeNullValues(removeNullValues(fin.m))]>>
    /\ UNCHANGED callvars

CallBuildEffectiveConfigMap ==
    /\ fin.fn = "buildEffectiveConfigMap"
    /\ ~Called
    /\ fout' = <<effectiveConfig(fin.immich, fin.configuration)>>
    /\ UNCHANGED callvars

InitConfig ==
    /\ fin \in MergeInputs \cup PruneInputs \cup ConfigInputs
    /\ fout = <<>>
    /\ NoLifecycle

NextConfig ==
    \/ CallDeepMergeMap
    \/ CallRemoveNullValues
    \/ CallBuildEffectiveConfigMap

SpecConfig == InitConfig /\ [][NextConfig]_vars

----------------------------------------------------------------------------
\* The workloads and Services the component reconcilers build: labels,
\* selectors and volumes.

labelApp == "app.kubernetes.io/name"
labelInstance == "app.kubernetes.io/instance"
labelComponent == "app.kubernetes.io/component"
labelManagedBy == "app.kubernetes.io/managed-by"
labelPartOf == "app.kubernetes.io/part-of"

\* A label map is a function from the keys it holds to their values.
getSelectorLabels(i, component) ==
    [k \in {labelApp, labelInstance, labelComponent} |->
        CASE k = labelApp -> "immich"
          [] k = labelInstance -> CRName
          [] k = labelComponent -> component]

getLabels(i, component) ==
    [k \in {labelApp, labelInstance, labelComponent, labelManagedBy, labelPartOf} |->
        CASE k = labelApp -> "immich"
          [] k = labelInstance -> CRName
          [] k = labelComponent -> component
          [] k = labelManagedBy -> "immich-operator"
          [] k = labelPartOf -> "immich"]

mergeMaps(base, override) ==
    [k \in DOMAIN base \cup DOMAIN override |->
        IF k \in DOMAIN override THEN override[k] ELSE base[k]]

IsMLPersistenceEnabled(i) ==
    IF i.spec.machineLearning.persistenceEnabled = Nil
    THEN TRUE ELSE i.spec.machineLearning.persistenceEnabled = "true"

IsValkeyPersistenceEnabled(i) ==
    IF i.spec.valkey.persistenceEnabled = Nil
    THEN FALSE ELSE i.spec.valkey.persistenceEnabled = "true"

\* Volumes of a pod.
PVCVolume(name, claimName) == [name |-> name, source |-> "pvc", claimName |-> claimName]
EmptyDirVolume(name) == [name |-> name, source |-> "emptyDir"]
ConfigVolume(kind, objectName) == [name |-> "config", source |-> kind, objectName |-> objectName]

\* The existing claim of the Valkey and of the ML persistence block is
\* passed beside the CR (existingClaim, "" when there is none).
getValkeyVolumes(i, existingClaim) ==
    IF i.spec.valkey.persistenceEnabled = "true"
    THEN <<PVCVolume("data", IF existingClaim # "" THEN existingClaim
                             ELSE CRName \o "-valkey-data")>>
    ELSE <<EmptyDirVolume("data")>>

getMLVolumes(i, existingClaim) ==
    IF i.spec.machineLearning.persistenceEnabled = "false"
    THEN <<EmptyDirVolume("cache")>>
    ELSE <<PVCVolume("cache", IF existingClaim # "" THEN existingClaim
                              ELSE CRName \o "-ml-cache")>>

getServerVolumes(i) ==
    SeqIf(~IsUnset(i.spec.immich.libraryExistingClaim) \/ ShouldCreateLibraryPVC(i),
          <<PVCVolume("library", GetLibraryPVCName(i))>>)
    \o <<ConfigVolume(IF GetConfigurationKind(i) = "Secret" THEN "Secret" ELSE "ConfigMap",
                      CRName \o "-immich-config")>>

\* What a component reconciler builds for its workload and its Service.
Built(selector, template, volumes, service) ==
    [selector |-> selector, template |-> template, volumes |-> volumes,
     service |-> service]

serverWorkload(i, podLabels) ==
    Built(getSelectorLabels(i, "server"),
          mergeMaps(getLabels(i, "server"), podLabels),
          getServerVolumes(i),
          getSelectorLabels(i, "server"))

mlWorkload(i, podLabels, existingClaim) ==
    Built(getSelectorLabels(i, "machine-learning"),
          mergeMaps(getLabels(i, "machine-learning"), podLabels),
          getMLVolumes(i, existingClaim),
          getSelectorLabels(i, "machine-learning"))

valkeyWorkload(i, podLabels, existingClaim) ==
    Built(getSelectorLabels(i, "valkey"),
          mergeMaps(getLabels(i, "valkey"), podLabels),
          getValkeyVolumes(i, existingClaim),
          getSelectorLabels(i, "valkey"))

\* The StatefulSet does not read spec.postgres.podLabels; its data volume
\* is a volume claim template.
postgresWorkload(i, podLabels) ==
    Built(getLabels(i, "postgres"),
          getLabels(i, "postgres"),
          <<>>,
          getLabels(i, "postgres"))

\* The pod labels a user may set: any of the three selector keys and a key
\* of the user's own, each with the value the operator gives the name
\* label or another one.
PodLabelKeys == {labelApp, labelInstance, labelComponent, "team"}
PodLabelValues == {"immich", "other"}
PodLabelMaps ==
    UNION { [keys -> PodLabelValues] : keys \in SUBSET PodLabelKeys }
ExistingClaims == {"", "mine"}

BuildInputs ==
    { [fn |-> "reconcileServer",
       immich |-> ImmichWith([DefaultSpec EXCEPT !.immich.configurationKind = k,
                                                 !.immich.libraryExistingClaim = l]),
       podLabels |-> p, existingClaim |-> ""] :
        k \in {Nil, "ConfigMap", "Secret"}, l \in {Nil, "photos"}, p \in PodLabelMaps }
    \cup
    { [fn |-> "reconcileMachineLearning",
       immich |-> ImmichWith([DefaultSpec EXCEPT !.machineLearning.persistenceEnabled = e]),
       podLabels |-> p, existingClaim |-> x] :
        e \in PersistenceValues, x \in ExistingClaims, p \in PodLabelMaps }
    \cup
    { [fn |-> "reconcileValkey",
       immich |-> ImmichWith([DefaultSpec EXCEPT !.valkey.persistenceEnabled = e]),
       podLabels |-> p, existingClaim |-> x] :
        e \in PersistenceValues, x \in ExistingClaims, p \in PodLabelMaps }
    \cup
    { [fn |-> "reconcilePostgres", immich |-> ImmichWith(DefaultSpec),
       podLabels |-> p, existingClaim |-> ""] : p \in PodLabelMaps }

BuildServer ==
    /\ fin.fn = "reconcileServer"
    /\ ~Called
    /\ fout' = <<serverWorkload(fin.immich, fin.podLabels)>>
    /\ UNCHANGED callvars

BuildMachineLearning ==
    /\ fin.fn = "reconcileMachineLearning"
    /\ ~Called
    /\ fout' = <<mlWorkload(fin.immich, fin.podLabels, fin.existingClaim)>>
    /\ UNCHANGED callvars

BuildValkey ==
    /\ fin.fn = "reconcileValkey"
    /\ ~Called
    /\ fout' = <<valkeyWorkload(fin.immich, fin.podLabels, fin.existingClaim)>>
    /\ UNCHANGED callvars

BuildPostgres ==
    /\ fin.fn = "reconcilePostgres"
    /\ ~Called
    /\ fout' = <<postgresWorkload(fin.immich, fin.podLabels)>>
    /\ UNCHANGED callvars

InitBuild ==
    /\ fin \in BuildInputs
    /\ fout = <<>>
    /\ NoLifecycle

NextBuild ==
    \/ BuildServer
    \/ BuildMachineLearning
    \/ BuildValkey
    \/ BuildPostgres

SpecBuild == InitBuild /\ [][NextBuild]_vars

----------------------------------------------------------------------------
\* generateRandomPassword on every length, beside the lifecycle that calls
\* it with PasswordLength.

\* The largest length asked of generateRandomPassword.
MaxPasswordLength == 3

\* Bytes rand.Read may deliver: the ends of the ranges of the charset, the
\* first byte that wraps around it and the largest byte.
RandomBytes == {0, 25, 26, 51, 52, 61, 62, 255}

PasswordInputs ==
    UNION { { [fn |-> "generateRandomPassword", length |-> l,
               read |-> [err |-> e, b |-> b]] :
                e \in BOOLEAN, b \in [1..l -> RandomBytes] } :
            l \in 0..MaxPasswordLength }

CallGenerateRandomPassword ==
    /\ DOMAIN fin # {}
    /\ fin.fn = "generateRandomPassword"
    /\ ~Called
    /\ fout' = <<generateRandomPassword(fin.length, fin.read)>>
    /\ UNCHANGED callvars

\* The operator's lifecycle, or one call of the generator.
InitCredentials ==
    \/ Init
    \/ /\ fin \in PasswordInputs
       /\ fout = <<>>
       /\ NoLifecycle

NextCredentials ==
    \/ DOMAIN fin = {} /\ Next
    \/ CallGenerateRandomPassword

SpecCredentials == InitCredentials /\ [][NextCredentials]_vars

----------------------------------------------------------------------------
\* What the documentation says of validation, in terms of the fields of
\* the CR and the environment.

SubSpecOf(s, c) ==
    CASE c = "server" -> s.server
      [] c = "machine-learning" -> s.machineLearning
      [] c = "valkey" -> s.valkey
      [] c = "postgres" -> s.postgres

EnabledIn(s, c) == SubSpecOf(s, c).enabled # "false"
ResolvedIn(s, c) ==
    IF SubSpecOf(s, c).image \notin {Nil, ""} THEN SubSpecOf(s, c).image ELSE env[c]
ImageMissingIn(s, c) == EnabledIn(s, c) /\ ResolvedIn(s, c) = ""
PostgresHostMissingIn(s) == ~EnabledIn(s, "postgres") /\ s.postgres.host = ""
PostgresPasswordMissingIn(s) ==
    /\ ~EnabledIn(s, "postgres")
    /\ s.postgres.passwordSecretRef = Nil
    /\ s.postgres.urlSecretRef = Nil
ValkeyHostMissingIn(s) == ~EnabledIn(s, "valkey") /\ s.valkey.host = ""
ValidSpec(s) ==
    /\ \A c \in Components : ~ImageMissingIn(s, c)
    /\ ~PostgresHostMissingIn(s)
    /\ ~PostgresPasswordMissingIn(s)
    /\ ~ValkeyHostMissingIn(s)

\* The same of the object handed to validateImages.
Validated == verr # <<"pending">>
Enabled(c) == EnabledIn(vimmich.spec, c)
Resolved(c) == ResolvedIn(vimmich.spec, c)
ImageMissing(c) == ImageMissingIn(vimmich.spec, c)
AllImagesResolvable == \A c \in Components : ~ImageMissing(c)
PostgresHostMissing == PostgresHostMissingIn(vimmich.spec)
PostgresPasswordMissing == PostgresPasswordMissingIn(vimmich.spec)
ValkeyHostMissing == ValkeyHostMissingIn(vimmich.spec)
EndpointsComplete ==
    ~PostgresHostMissing /\ ~PostgresPasswordMissing /\ ~ValkeyHostMissing

\* C7: the error validation returns mentions every problem of the spec:
\* every enabled component without a resolvable image, and every setting
\* a disabled built-in database or cache lacks.
C7_ValidationCompleteness ==
    Validated =>
        /\ \A c \in Components : ImageMissing(c) => Contains(verr, c)
        /\ PostgresHostMissing => Contains(verr, "spec.postgres.host is required")
        /\ PostgresPasswordMissing => Contains(verr, "passwordSecretRef is required")
        /\ ValkeyHostMissing => Contains(verr, "spec.valkey.host is required")

\* The spec of C7's example was validated: no server image anywhere, the
\* built-in database disabled, no host.
C7_Example ==
    /\ Validated
    /\ ImageMissing("server")
    /\ PostgresHostMissing

\* C8: with every image resolvable, validation fails with "spec.postgres.
\* host is required" when the built-in database is disabled without host,
\* with "passwordSecretRef is required" when it is disabled without
\* password or URL secret reference, with "spec.valkey.host is required"
\* when the built-in cache is disabled without host, and succeeds when
\* none of the three is the case.
C8_ExternalEndpointValidation ==
    (Validated /\ AllImagesResolvable) =>
        /\ PostgresHostMissing => Contains(verr, "spec.postgres.host is required")
        /\ PostgresPasswordMissing => Contains(verr, "passwordSecretRef is required")
        /\ ValkeyHostMissing => Contains(verr, "spec.valkey.host is required")
        /\ EndpointsComplete => verr = NoError

\* Validation of a spec with both built-ins disabled and none of their
\* external settings gave the three messages.
C8_Witness ==
    /\ Validated /\ AllImagesResolvable
    /\ PostgresHostMissing /\ PostgresPasswordMissing /\ ValkeyHostMissing
    /\ Contains(verr, "spec.postgres.host is required")
    /\ Contains(verr, "passwordSecretRef is required")
    /\ Contains(verr, "spec.valkey.host is required")

\* C9: a disabled machine-learning component never makes validation fail,
\* with or without an external URL: the error does not mention it, and
\* validation succeeds when nothing else is wrong.
C9_MLAsymmetry ==
    (Validated /\ ~Enabled("machine-learning")) =>
        /\ ~Contains(verr, "machine-learning")
        /\ \A k \in 1..Len(verr) : verr[k] # "spec.machineLearning.url is required"
        /\ (EndpointsComplete /\ AllImagesResolvable) => verr = NoError

\* Validation passed a spec whose only deviation from the defaults is
\* machineLearning.enabled=false, without URL.
C9_Witness ==
    /\ verr = NoError
    /\ env = AllImagesEnv
    /\ vimmich.spec = [DefaultSpec EXCEPT !.machineLearning.enabled = "false"]

\* C10: the resolved image of a component is the spec value when set and
\* not empty, else the RELATED_IMAGE_* default; validation names a
\* component as missing its image exactly when it is enabled and both are
\* empty, and all of them in one "missing required images" error.
C10_ImageResolution ==
    Validated =>
        \A c \in Components :
            /\ vimages[c] = Resolved(c)
            /\ Contains(verr, c) <=> ImageMissing(c)
            /\ ImageMissing(c) => verr[1] = "missing required images: "

\* Two components were reported together, a disabled one without image
\* was not, and a spec image was preferred to the default.
C10_Witness ==
    /\ Validated
    /\ Contains(verr, "server") /\ Contains(verr, "valkey")
    /\ ~Enabled("machine-learning") /\ Resolved("machine-learning") = ""
    /\ ~Contains(verr, "machine-learning")
    /\ vimages["postgres"] = "custom" /\ env["postgres"] # ""

----------------------------------------------------------------------------
\* What the documentation says of a reconcile pass.

\* A step of the pass (every step of the pass moves it; nobody else does).
PassStep == pc' # pc

\* The writes a step adds to the record of the pass.
NewWrites ==
    IF pc' # pc /\ pc # "idle"
    THEN SubSeq(writes', Len(writes) + 1, Len(writes'))
    ELSE <<>>

ImmichKey == "Immich/" \o CRName
ChildWrites(ws) == SelectSeq(ws, LAMBDA w : w.key # ImmichKey)
HasCondition(status, type, value) ==
    \E k \in 1..Len(status.conditions) :
        status.conditions[k].type = type /\ status.conditions[k].status = value

\* The two objects the operator creates without owner, and the positions
\* of the pass at their existence check and at their creation.
GeneratedDurableKeys == {LibraryPVC, PostgresCredentials}
CheckAt(k) == IF k = LibraryPVC THEN "library" ELSE "postgres"
CreateAt(k) == IF k = LibraryPVC THEN "library-create" ELSE "postgres-create"

\* The parts of C1: the state invariant and the step property.
C1_DurableNeverOwned ==
    \A k \in GeneratedDurableKeys : objs[k].owner = 0
C1_DurableWrites ==
    \A k \in GeneratedDurableKeys :
        /\ (PassStep /\ pc = CheckAt(k) /\ objs[k].exists) =>
              (pc' # CreateAt(k) /\ NewWrites = <<>> /\ objs' = objs)
        /\ (PassStep /\ pc' = CreateAt(k)) => (pc = CheckAt(k) /\ ~objs[k].exists)
        /\ \A n \in 1..Len(NewWrites) :
              NewWrites[n].key = k => (pc = CreateAt(k) /\ NewWrites[n].op = "create")
        /\ (PassStep /\ objs'[k] # objs[k]) => (pc = CreateAt(k) /\ ~objs[k].exists)

\* C1: the library PVC and the generated credentials Secret never carry
\* an owner reference; a pass whose existence check finds one of them
\* goes on without a write for it; a write for one of them is a create,
\* issued by a pass whose existence check found it absent, and such a
\* pass is the only way the operator brings one into existence.
C1_DurableUntouched == []C1_DurableNeverOwned /\ [][C1_DurableWrites]_vars

\* A clean pass on the default spec found a library PVC someone else had
\* created, wrote nothing for it, and created the credentials itself.
C1_Witness ==
    /\ pc = "idle" /\ result.branch = "reconciled"
    /\ objs[LibraryPVC] = ExternalObject
    /\ \A n \in 1..Len(writes) : writes[n].key # LibraryPVC
    /\ \E n \in 1..Len(writes) :
          writes[n] = Write("create", PostgresCredentials, TRUE)
    /\ objs[PostgresCredentials].by = cr.uid

\* The step property of C2.
C2_DurableStable ==
    \A k \in DurableKeys : objs[k].exists => objs'[k] = objs[k]

\* C2: a durable object (credentials Secret, library PVC, database PVC)
\* that exists stays the same object with the same content, whatever
\* happens to the CR: deletion, garbage collection of the owned objects,
\* a new CR of the same name, its passes.  The password in particular
\* is never replaced.
C2_StabilityUnderRecreation == [][C2_DurableStable]_vars

\* The second CR of the name was reconciled with the built-in database
\* and cache, its workloads are its own, and the credentials (the first
\* password generated), the library PVC and the database PVC are the
\* objects made for the first CR.
C2_Witness ==
    /\ pc = "idle" /\ result.branch = "reconciled"
    /\ cr.uid = 2 /\ cr.spec = DefaultSpec
    /\ objs[PostgresStatefulSet].exists /\ objs[PostgresStatefulSet].owner = 2
    /\ objs[PostgresStatefulSet].by = 2
    /\ objs[PostgresCredentials].exists /\ objs[PostgresCredentials].by = 1
    /\ objs[PostgresCredentials].data[2] =
           generateRandomPassword(PasswordLength, randRead(1, PasswordLength)).password
    /\ objs[LibraryPVC].exists /\ objs[LibraryPVC].by = 1
    /\ objs[PostgresDataPVC].exists

\* The parts of C3: the step of the first pass and the state invariant.
C3_FinalizerPass ==
    (PassStep /\ pc = "fetched" /\ ~immich.deleting /\ ~immich.finalizer) =>
        /\ pc' = "idle"
        /\ objs' = objs /\ generated' = generated
        /\ Len(writes') = 1
        /\ writes'[1].op = "update" /\ writes'[1].key = ImmichKey
        /\ IF writes'[1].ok
           THEN /\ cr' = [cr EXCEPT !.finalizer = TRUE]
                /\ result'.requeue = "immediate" /\ ~result'.err
           ELSE /\ cr' = cr
                /\ result'.err /\ result'.requeue = "none"
C3_ChildrenAfterFinalizer ==
    \A k \in ObjKeys :
        objs[k].exists =>
            /\ objs[k].by # 0 => objs[k].by \in finalizerPersisted
            /\ objs[k].owner # 0 => objs[k].owner \in finalizerPersisted

\* C3: a pass that finds a live CR without the finalizer issues one
\* write, the update of the CR with the finalizer, and returns: with an
\* immediate requeue when the update succeeded, with the error when it
\* failed; no child object and no status is written.  So every object
\* the operator made or owns for a CR was written after a pass persisted
\* the finalizer on that CR.
C3_FinalizerFirst == []C3_ChildrenAfterFinalizer /\ [][C3_FinalizerPass]_vars

\* The first pass on a new CR persisted the finalizer and asked for an
\* immediate requeue; no object exists yet.
C3_Witness ==
    /\ pc = "idle" /\ result.branch = "finalizer-added"
    /\ result.requeue = "immediate"
    /\ cr.exists /\ cr.finalizer /\ cr.uid \in finalizerPersisted
    /\ writes = <<Write("update", ImmichKey, TRUE)>>
    /\ \A k \in ObjKeys : ~objs[k].exists

\* The step property of C4.
C4_DeletionPass ==
    (PassStep /\ pc = "fetched" /\ immich.deleting) =>
        /\ pc' = "idle"
        /\ objs' = objs /\ generated' = generated
        /\ result'.requeue = "none"
        /\ IF immich.finalizer
           THEN /\ Len(writes') = 1
                /\ writes'[1].op = "update" /\ writes'[1].key = ImmichKey
                /\ IF writes'[1].ok
                   THEN /\ ~result'.err
                        /\ cr' = IF cr.foreign THEN [cr EXCEPT !.finalizer = FALSE]
                                 ELSE NoCR
                   ELSE result'.err /\ cr' = cr
           ELSE writes' = <<>> /\ cr' = cr /\ ~result'.err

\* C4: a pass that finds the deletion timestamp ends at once without
\* requeue and without touching a child object or the status.  With the
\* finalizer present it issues one write, the update of the CR without
\* the finalizer (the error is returned if that fails); without the
\* finalizer it issues none.
C4_Finalizing == [][C4_DeletionPass]_vars

\* The finalizing pass removed the finalizer and the CR is gone; the
\* objects the CR owned are still there for the garbage collector.
C4_Witness ==
    /\ pc = "idle" /\ result.branch = "finalized" /\ ~result.err
    /\ writes = <<Write("update", ImmichKey, TRUE)>>
    /\ ~cr.exists
    /\ objs[ServerDeployment].exists /\ objs[LibraryPVC].exists

\* The step property of C5.
C5_SecondPass ==
    (PassStep /\ quiet = "second") =>
        /\ objs' = objs
        /\ generated' = generated
        /\ \A n \in 1..Len(NewWrites) : NewWrites[n].op # "create"

\* C5: a pass that follows a clean pass, with no change of the CR and
\* nothing done by anyone else since that pass started, creates no
\* object, generates no password and leaves every child object as it
\* was.
C5_Idempotent == [][C5_SecondPass]_vars

\* The second of two such passes on the default spec has gone through
\* every component.
C5_Witness ==
    /\ quiet = "second" /\ pc = "status"
    /\ cr.spec = DefaultSpec
    /\ Len(ChildWrites(writes)) > 0
    /\ objs[PostgresCredentials].by = cr.uid

\* The step property of C6.
C6_InvalidPass ==
    (PassStep /\ pc = "fetched" /\ ~immich.deleting /\ immich.finalizer
     /\ ~ValidSpec(immich.spec)) =>
        /\ pc' = "idle"
        /\ objs' = objs /\ generated' = generated
        /\ result'.requeue = "30s"
        /\ Len(writes') = 1
        /\ writes'[1].op = "status" /\ writes'[1].key = ImmichKey
        /\ writes'[1].ok =>
              /\ HasCondition(cr'.status, "Degraded", "True")
              /\ ~cr'.status.ready

----------------------------------------------------------------------------
\* Status: readiness and the derived URL.

\* The flag updateStatus reports for a component.
ReportedReady(st, c) ==
    CASE c = "server" -> st.serverReady
      [] c = "machine-learning" -> st.machineLearningReady
      [] c = "valkey" -> st.valkeyReady
      [] c = "postgres" -> st.postgresReady

\* The component's workload exists and all its replicas, at least one,
\* are ready.
Live(c) ==
    /\ fin.workloads[c].found
    /\ fin.workloads[c].readyReplicas > 0
    /\ fin.workloads[c].readyReplicas = fin.workloads[c].replicas

\* C11: after updateStatus, status.ready is true exactly when every
\* enabled component has a live workload whose replicas, at least one,
\* are all ready; a disabled component is reported ready whatever its
\* workload, and an enabled one is reported by its own workload.
C11_ReadinessAggregation ==
    (fin.fn = "updateStatus" /\ Called) =>
        /\ fout[1].ready =
              (\A c \in Components : EnabledIn(fin.immich.spec, c) => Live(c))
        /\ \A c \in Components :
              ReportedReady(fout[1], c) =
                  (EnabledIn(fin.immich.spec, c) => Live(c))

\* The cache is disabled and has no workload, another workload runs two
\* replicas, all ready: the instance is ready.
C11_Witness ==
    /\ fin.fn = "updateStatus" /\ Called
    /\ ~EnabledIn(fin.immich.spec, "valkey")
    /\ ~fin.workloads["valkey"].found
    /\ \A c \in Components \ {"valkey"} : EnabledIn(fin.immich.spec, c)
    /\ fin.workloads["server"].replicas = 2
    /\ fout[1].ready
    /\ fout[1].valkeyReady

\* The objects the URL may come from, in terms of the CR and what r.Get
\* gives.
RouteShouldExist ==
    \/ fin.immich.spec.server.routeEnabled = "true"
    \/ fin.immich.spec.server.routeEnabled = Nil /\ fin.routeAPIAvailable
RouteHost ==
    IF fin.route.statusHost # "" THEN fin.route.statusHost ELSE fin.route.specHost
RouteSupplies == RouteShouldExist /\ fin.route.get = "found" /\ RouteHost # ""
IngressHost ==
    IF fin.ingress.loadBalancer # <<>> /\ fin.ingress.loadBalancer[1].hostname # ""
    THEN fin.ingress.loadBalancer[1].hostname
    ELSE IF fin.ingress.loadBalancer # <<>> /\ fin.ingress.loadBalancer[1].ip # ""
    THEN fin.ingress.loadBalancer[1].ip
    ELSE IF fin.ingress.rules # <<>> THEN fin.ingress.rules[1].host
    ELSE ""
IngressSupplies ==
    /\ fin.immich.spec.server.ingressEnabled = "true"
    /\ fin.ingress.get = "found"
    /\ IngressHost # ""

\* C12: when updateURLStatus returns no error, the URL is that of the
\* Route when a Route should exist, is found and exposes a host (the
\* assigned host before the declared one), else that of the Ingress when
\* ingress is enabled, is found and exposes a host (load-balancer
\* hostname, IP, first rule's host, in this order), with https exactly
\* when the supplying object has TLS; else it is empty, whatever the URL
\* was before.
C12_DerivedURL ==
    (fin.fn = "updateURLStatus" /\ Called /\ ~fout[1].err) =>
        fout[1].url =
            IF RouteSupplies
            THEN (IF fin.route.tls THEN "https://" ELSE "http://") \o RouteHost
            ELSE IF IngressSupplies
            THEN (IF fin.ingress.tls THEN "https://" ELSE "http://") \o IngressHost
            ELSE ""

\* The status held a URL, the Route has an assigned and a declared host
\* and TLS: the URL is https on the assigned host.
C12_Witness ==
    /\ fin.fn = "updateURLStatus" /\ Called
    /\ fin.immich.status.url = "https://earlier.example.com"
    /\ fin.route.get = "found"
    /\ fin.route.statusHost # "" /\ fin.route.specHost # "" /\ fin.route.tls
    /\ fout[1] = [err |-> FALSE, url |-> "https://immich.apps.example.com"]

----------------------------------------------------------------------------
\* The configuration merge.

\* A map that holds nothing (what base holds below a path where it has
\* no map).
Nothing == [k \in {} |-> NoEntry]

\* In the map r, at every key and below: override's value where override
\* has a scalar, base's value where override is absent or null, and a
\* map where override has a map: merged with base's map where base has
\* one, else holding what override's map holds and is not null.
RECURSIVE MergeAgrees(_, _, _)
MergeAgrees(r, base, override) ==
    \A k \in DOMAIN r \cup DOMAIN base \cup DOMAIN override :
        LET rv == Get(r, k)
            bv == Get(base, k)
            ov == Get(override, k)
        IN CASE ov.t = "scalar" -> rv = ov
             [] ov.t \in {"none", "null"} -> rv = bv
             [] ov.t = "map" ->
                  /\ rv.t = "map"
                  /\ MergeAgrees(rv.m, IF bv.t = "map" THEN bv.m ELSE Nothing, ov.m)

RECURSIVE NoNull(_)
NoNull(m) ==
    \A k \in DOMAIN m :
        /\ m[k].t # "null"
        /\ m[k].t = "map" => NoNull(m[k].m)
        /\ m[k].t = "list" =>
              \A n \in 1..Len(m[k].es) : m[k].es[n].t = "map" => NoNull(m[k].es[n].m)

\* No map nested in the map is empty.
RECURSIVE NoEmptyMap(_)
NoEmptyMap(m) ==
    \A k \in DOMAIN m :
        m[k].t = "map" => (Entries(m[k].m) # {} /\ NoEmptyMap(m[k].m))

\* The map holds a value that is neither null nor a map.
RECURSIVE HoldsValue(_)
HoldsValue(m) ==
    \E k \in DOMAIN m :
        \/ m[k].t \in {"scalar", "list"}
        \/ m[k].t = "map" /\ HoldsValue(m[k].m)

\* The map r holds the scalars and lists the map m holds under its keys,
\* each at its path, and nothing else but the maps on these paths.
RECURSIVE KeepsValues(_, _)
KeepsValues(r, m) ==
    \A k \in DOMAIN r \cup DOMAIN m :
        LET rv == Get(r, k)
            mv == Get(m, k)
        IN CASE mv.t = "scalar" -> rv = mv
             [] mv.t = "list" -> rv.t = "list" /\ Len(rv.es) = Len(mv.es)
             [] mv.t \in {"none", "null"} -> rv = NoEntry
             [] mv.t = "map" ->
                  IF HoldsValue(mv.m)
                  THEN rv.t = "map" /\ KeepsValues(rv.m, mv.m)
                  ELSE rv = NoEntry

RenderedML == fout[1]["machineLearning"].m
BuiltInML == fin.immich.spec.machineLearning.enabled # "false"
ExternalMLURL == fin.immich.spec.machineLearning.url

Selects(selector, labels) ==
    \A k \in DOMAIN selector : k \in DOMAIN labels /\ labels[k] = selector[k]

BuildCalled == fin.fn \in {"reconcileServer", "reconcileMachineLearning",
                           "reconcileValkey", "reconcilePostgres"} /\ Called

\* C16: whatever the pod labels of the spec, the keys of the selector
\* included, the pod-template labels of each built workload contain every
\* key/value pair of the workload's selector.
C16_SelectionNeverBroken ==
    BuildCalled => Selects(fout[1].selector, fout[1].template)

\* The server Deployment of a spec whose podLabels set the component label
\* to another value: the selector wants component server, the pods carry
\* component other.
C16_Example ==
    /\ fin.fn = "reconcileServer" /\ Called
    /\ fin.podLabels = [k \in {labelComponent} |-> "other"]
    /\ fout[1].selector[labelComponent] = "server"
    /\ fout[1].template[labelComponent] = "other"

ComponentOf ==
    CASE fin.fn = "reconcileServer" -> "server"
      [] fin.fn = "reconcileMachineLearning" -> "machine-learning"
      [] fin.fn = "reconcileValkey" -> "valkey"
      [] fin.fn = "reconcilePostgres" -> "postgres"

ThreeLabels(component) ==
    [k \in {labelApp, labelInstance, labelComponent} |->
        IF k = labelApp THEN "immich"
        ELSE IF k = labelInstance THEN CRName ELSE component]

\* C17: for each of the four components the selector of the workload and
\* of the Service is exactly the three labels name = immich, instance = the
\* CR's name and component = the component, whatever the pod labels.
C17_SelectorStability ==
    BuildCalled =>
        /\ fout[1].selector = ThreeLabels(ComponentOf)
        /\ fout[1].service = ThreeLabels(ComponentOf)

\* The database: the selector of the StatefulSet and of the Service holds
\* the managed-by and part-of labels as well.
C17_Example ==
    /\ fin.fn = "reconcilePostgres" /\ Called
    /\ DOMAIN fout[1].selector =
           {labelApp, labelInstance, labelComponent, labelManagedBy, labelPartOf}
    /\ fout[1].service = fout[1].selector

\* The data volume of the built pod: library for the server, cache for
\* machine-learning, data for the cache.
DataVolumeName ==
    CASE fin.fn = "reconcileServer" -> "library"
      [] fin.fn = "reconcileMachineLearning" -> "cache"
      [] fin.fn = "reconcileValkey" -> "data"
DataVolumes ==
    {fout[1].volumes[n] : n \in {m \in 1..Len(fout[1].volumes) :
                                    fout[1].volumes[m].name = DataVolumeName}}

\* The persistence of the component is enabled (the library has no switch:
\* it is always persistent), and the existing claim the spec supplies ("":
\* none).
PersistenceEnabled ==
    CASE fin.fn = "reconcileServer" -> TRUE
      [] fin.fn = "reconcileMachineLearning" -> IsMLPersistenceEnabled(fin.immich)
      [] fin.fn = "reconcileValkey" -> IsValkeyPersistenceEnabled(fin.immich)
SuppliedClaim ==
    IF fin.fn = "reconcileServer"
    THEN IF IsUnset(fin.immich.spec.immich.libraryExistingClaim)
         THEN "" ELSE fin.immich.spec.immich.libraryExistingClaim
    ELSE fin.existingClaim

\* C20: the pod of the cache, of machine-learning and of the server has a
\* data volume backed by a PVC exactly when the persistence of the
\* component is enabled or an existing claim is supplied, the supplied
\* claim when there is one; in every other case the data volume is an
\* emptyDir.
C20_ConditionalVolumes ==
    (fin.fn \in {"reconcileServer", "reconcileMachineLearning", "reconcileValkey"}
     /\ Called) =>
        IF PersistenceEnabled \/ SuppliedClaim # ""
        THEN /\ DataVolumes # {}
             /\ \A v \in DataVolumes :
                    /\ v.source = "pvc"
                    /\ SuppliedClaim # "" => v.claimName = SuppliedClaim
        ELSE /\ DataVolumes # {}
             /\ \A v \in DataVolumes : v.source = "emptyDir"

\* The cache with an existing claim and persistence.enabled left unset:
\* the pod gets an emptyDir, the claim is not mounted.
C20_Example ==
    /\ fin.fn = "reconcileValkey" /\ Called
    /\ fin.immich.spec.valkey.persistenceEnabled = Nil
    /\ fin.existingClaim = "mine"
    /\ fout[1].volumes = <<EmptyDirVolume("data")>>

\* The objects the operator writes with server-side apply; the rendered
\* configuration is written with createOrUpdate and the two PVCs are
\* created once and never written again.
NeverApplied == {ConfigMapKey, ConfigSecretKey, ValkeyPVC, MLPVC}

\* C18 as stated: every Deployment, StatefulSet, Service, Ingress, Route
\* and rendered configuration the operator created, and the ML cache PVC
\* and the cache data PVC, has as its controller owner the CR incarnation
\* whose pass created it.
C18_OwnedByCreator ==
    \A k \in OwnedKeys :
        objs[k].exists => (objs[k].by # 0 /\ objs[k].owner = objs[k].by)

\* C18, amended: every such object was created by a pass of the operator
\* and has a controller owner, which is the incarnation that created it
\* or, for an object written with server-side apply, a later incarnation
\* of the same name whose pass applied it before the garbage collector
\* removed it; the configuration object and the two PVCs are owned by
\* their creator.  So each object is owned by the stored CR or is removed
\* by the cascade.
C18_OwnerReference ==
    \A k \in OwnedKeys :
        objs[k].exists =>
            /\ objs[k].by # 0
            /\ objs[k].owner # 0
            /\ IF k \in NeverApplied
               THEN objs[k].owner = objs[k].by
               ELSE objs[k].owner >= objs[k].by
            /\ (cr.exists /\ cr.uid = objs[k].owner) \/ k \in Orphaned(objs)

\* The two PVCs, a rendered configuration and a Deployment exist and are
\* owned by the stored CR, which is not the first of its name.
C18_Witness ==
    /\ cr.exists /\ cr.uid > 1
    /\ \A k \in {ValkeyPVC, MLPVC, ServerDeployment} :
           objs[k].exists /\ objs[k].owner = cr.uid
    /\ \E k \in {ConfigMapKey, ConfigSecretKey} :
           objs[k].exists /\ objs[k].owner = cr.uid

\* A pass has ended with success and nobody has acted since it started:
\* the cluster is as the pass left it.
AfterSuccessfulPass ==
    pc = "idle" /\ quiet = "settled" /\ result.branch = "reconciled" /\ cr.exists

\* The objects named <name>-immich-config that exist.
ConfigObjects == {k \in {ConfigMapKey, ConfigSecretKey} : objs[k].exists}

\* The kind the config volume of the server Deployment refers to.
ServerConfigVolumeKind == objs[ServerDeployment].data[4]

\* The object of the configured kind exists and holds the rendered
\* configuration, and the config volume of the server refers to this kind.
CurrentConfigInPlace ==
    /\ ConfigKey(cr) \in ConfigObjects
    /\ objs[ConfigKey(cr)].data = buildEffectiveConfigMap(cr)
    /\ IsServerEnabled(cr) =>
          /\ objs[ServerDeployment].exists
          /\ ServerConfigVolumeKind = GetConfigurationKind(cr)

\* C19: after every successful pass exactly one object named
\* <name>-immich-config exists, a ConfigMap or a Secret and never both,
\* also after configurationKind was switched; it holds the rendered
\* configuration and is of the kind the config volume of the server
\* refers to.
C19_OneConfigObject ==
    AfterSuccessfulPass =>
        /\ Cardinality(ConfigObjects) = 1
        /\ CurrentConfigInPlace

\* After a switch of configurationKind from ConfigMap to Secret and a
\* successful pass, the ConfigMap of the earlier passes is still there
\* beside the Secret.
C19_Example ==
    /\ AfterSuccessfulPass
    /\ GetConfigurationKind(cr) = "Secret"
    /\ ConfigObjects = {ConfigMapKey, ConfigSecretKey}
    /\ objs[ConfigMapKey].owner = cr.uid
    /\ CurrentConfigInPlace

\* The alphabet [a-zA-Z0-9].
Alphanumeric ==
    {"a", "b", "c", "d", "e", "f", "g", "h", "i", "j", "k", "l", "m", "n", "o",
     "p", "q", "r", "s", "t", "u", "v", "w", "x", "y", "z"}
    \cup {"A", "B", "C", "D", "E", "F", "G", "H", "I", "J", "K", "L", "M", "N",
          "O", "P", "Q", "R", "S", "T", "U", "V", "W", "X", "Y", "Z"}
    \cup {"0", "1", "2", "3", "4", "5", "6", "7", "8", "9"}

\* The string has exactly the length and is over the alphabet.
IsPassword(str, length) ==
    /\ Len(str) = length
    /\ \A n \in 1..Len(str) : str[n] \in Alphanumeric

\* A credentials Secret the operator created holds a password of 32
\* alphanumeric characters and the derived username and database name.
GeneratedCredentialsWellFormed ==
    (objs[PostgresCredentials].exists /\ objs[PostgresCredentials].by # 0) =>
        LET data == objs[PostgresCredentials].data
        IN /\ Len(data) = 6
           /\ data[1] = "password" /\ IsPassword(data[2], 32)
           /\ data[3] = "username" /\ data[4] = "immich"
           /\ data[5] = "database" /\ data[6] = "immich"

\* generateRandomPassword returns a string of the length asked for.
GeneratorKeepsLength ==
    (DOMAIN fin # {} /\ fin.fn = "generateRandomPassword" /\ Called /\ ~fout[1].err) =>
        IsPassword(fout[1].password, fin.length)

\* A step of reconcilePostgresCredentials: with a password secret
\* reference nothing is generated and the Secret is not touched; without
\* one and with the Secret absent a password is generated and the Secret
\* is created, unless the create call fails.
CredentialsStep ==
    /\ (pc = "postgres" /\ pc' # pc /\ PostgresNeeded(immich)) =>
          IF immich.spec.postgres.passwordSecretRef # Nil
          THEN /\ pc' = "postgres-workload"
               /\ generated' = generated
               /\ objs' = objs /\ writes' = writes
          ELSE /\ objs' = objs /\ generated' = generated
               /\ (~objs[PostgresCredentials].exists /\ reconcileErr' = reconcileErr)
                     => pc' = "postgres-create"
               /\ pc' = "postgres-create" => ~objs[PostgresCredentials].exists
    /\ (pc = "postgres-create" /\ pc' # pc) =>
          /\ generated' = generated + 1
          /\ \/ /\ ~objs[PostgresCredentials].exists
                /\ objs'[PostgresCredentials].exists
                /\ objs'[PostgresCredentials].by = immich.uid
                /\ writes' = Append(writes, Write("create", PostgresCredentials, TRUE))
             \/ /\ objs' = objs
                /\ reconcileErr' = pc
                /\ writes' = Append(writes, Write("create", PostgresCredentials, FALSE))
    /\ (pc' # pc /\ pc # "postgres-create") => generated' = generated

\* C21: reconciling the built-in database without a password secret
\* reference and with the Secret <name>-postgres-credentials absent creates
\* the Secret with a password of exactly 32 characters of [a-zA-Z0-9] and
\* the derived username and database name; with a password secret reference
\* nothing is generated and no credentials Secret is created; and
\* generateRandomPassword returns, for every length, a string of that
\* length over that alphabet.
C21_CredentialsGeneration ==
    /\ [](GeneratedCredentialsWellFormed /\ GeneratorKeepsLength)
    /\ [][CredentialsStep]_vars

\* The pass has just created the credentials Secret with the first
\* password generated.
C21_Witness ==
    /\ pc = "postgres-workload"
    /\ generated = 1
    /\ Len(writes) > 0
    /\ writes[Len(writes)] = Write("create", PostgresCredentials, TRUE)
    /\ objs[PostgresCredentials].by = immich.uid
    /\ IsPassword(objs[PostgresCredentials].data[2], PasswordLength)

\* The steps the components enabled in the spec of the CR i run.
DesiredSteps(i) ==
    reconcileImmichConfig(i)
    \o SeqIf(PostgresNeeded(i), reconcilePostgresWorkload(i))
    \o SeqIf(IsValkeyEnabled(i), reconcileValkey(i))
    \o SeqIf(IsMachineLearningEnabled(i), reconcileMachineLearning(i))
    \o SeqIf(IsServerEnabled(i), reconcileServer(i))

ReadyConditionTrue(conds) ==
    \E k \in 1..Len(conds) : conds[k].type = "Ready" /\ conds[k].status = "True"

\* Every child object of the enabled components exists with the content
\* derived from the spec (the library PVC and the credentials Secret, which
\* the operator never writes again, exist), status.ready is true and the
\* Ready condition is True.
Converged ==
    /\ cr.exists /\ ~cr.deleting
    /\ \A n \in 1..Len(DesiredSteps(cr)) :
          LET st == DesiredSteps(cr)[n]
          IN /\ objs[st.key].exists
             /\ objs[st.key].data = st.obj.data
             /\ objs[st.key].owner = cr.uid
    /\ LibraryNeeded(cr) => objs[LibraryPVC].exists
    /\ (PostgresNeeded(cr) /\ cr.spec.postgres.passwordSecretRef = Nil)
          => objs[PostgresCredentials].exists
    /\ cr.status.ready
    /\ ReadyConditionTrue(cr.status.conditions)
    /\ cr.status.observedGeneration = cr.generation

\* The CR is live and valid from some point on.
LiveAndValid == cr.exists /\ ~cr.deleting /\ validateImages(cr) = NoError

\* The status a clean pass persists reports every existing workload of an
\* enabled component ready: the workloads report all their replicas ready.
WorkloadsReportReady ==
    (pc = "status" /\ pc' = "idle" /\ result'.branch = "reconciled") =>
        cr'.status.ready = updateStatus(immich, objs, Components).status.ready

\* A pass on a live CR ends with an error or with a request to be called
\* again.
PassEndsWithRetry ==
    /\ (pc # "idle" /\ pc' = "idle" /\ ~immich.deleting) =>
           (result'.err \/ result'.requeue # "none")
    /\ (pc = "idle" /\ pc' = "idle" /\ result'.branch = "get-failed") => result'.err

StatusWrites == {n \in 1..Len(writes) : writes[n].op = "status"}

\* A normal pass went through the components and the status lookups and
\* has ended.
AfterComponents ==
    /\ pc = "idle"
    /\ result.branch \in {"component-error", "reconciled", "status-update-failed"}

\* C23: a normal pass that went through the components writes the status
\* subresource exactly once, after all component writes, whether or not a
\* component returned an error.
C23_StatusWrittenOnce ==
    AfterComponents =>
        /\ Cardinality(StatusWrites) = 1
        /\ writes[Len(writes)].op = "status"

\* A pass in which one component failed after another had written its
\* objects: it has ended without a request to the status subresource.
C23_Example ==
    /\ AfterComponents
    /\ result.branch = "component-error"
    /\ StatusWrites = {}
    /\ \E n \in 1..Len(writes) : writes[n].ok
    /\ \E n \in 1..Len(writes) : ~writes[n].ok

\* The stages of a normal pass that run a component function, and the
\* steps of each for the CR i (none for a component that is not enabled).
ComponentStages == {"config", "postgres-workload", "valkey", "ml", "server"}

StageSteps(stage, i) ==
    CASE stage = "config" -> reconcileImmichConfig(i)
      [] stage = "postgres-workload" -> reconcilePostgresWorkload(i)
      [] stage = "valkey" -> SeqIf(IsValkeyEnabled(i), reconcileValkey(i))
      [] stage = "ml" -> SeqIf(IsMachineLearningEnabled(i), reconcileMachineLearning(i))
      [] stage = "server" -> SeqIf(IsServerEnabled(i), reconcileServer(i))

\* The stage after each stage of a normal pass, whatever happened in it.
FollowingStages(stage) ==
    CASE stage = "library" -> {"library-create", "config"}
      [] stage = "library-create" -> {"config"}
      [] stage = "config" -> {"postgres"}
      [] stage = "postgres" -> {"postgres-create", "postgres-workload", "valkey"}
      [] stage = "postgres-create" -> {"postgres-workload", "valkey"}
      [] stage = "postgres-workload" -> {"valkey"}
      [] stage = "valkey" -> {"ml"}
      [] stage = "ml" -> {"server"}
      [] stage = "server" -> {"status"}

\* A call of the API fails in this step of the pass.
StepFailed ==
    \/ disturbances' < disturbances
    \/ /\ Len(writes') > Len(writes)
       /\ ~writes'[Len(writes')].ok

\* The component of the stage is attempted, whether or not the pass holds
\* an error: unless a call fails, all its objects are in the store after
\* the step, the applied ones with the derived content.
ComponentAttempted ==
    (pc \in ComponentStages /\ pc' # pc) =>
        \/ StepFailed
        \/ \A n \in 1..Len(StageSteps(pc, immich)) :
              LET st == StageSteps(pc, immich)[n]
              IN /\ objs'[st.key].exists
                 /\ st.kind = "apply" => objs'[st.key].data = st.obj.data

\* No stage ends the pass or skips a later one, and the status computation
\* follows the last component.
PassGoesOn ==
    (pc \notin {"idle", "fetched", "status"} /\ pc' # pc) =>
        pc' \in FollowingStages(pc)

\* The pass holds the error of the last step that failed.
HoldsLastError ==
    (pc \notin {"idle", "fetched", "status"} /\ pc' # pc) =>
        reconcileErr' = IF StepFailed THEN pc ELSE reconcileErr

\* The pass returns an error when it holds one: the one it holds, unless a
\* status lookup failed after it.
ReturnsLastError ==
    (pc = "status" /\ pc' = "idle" /\ reconcileErr # NoErr) =>
        /\ result'.err
        /\ result'.branch # "status-lookup-failed" => result'.cause = reconcileErr

\* C24: in a normal valid pass every enabled component is attempted whether
\* or not an earlier component returned an error, the status computation
\* follows the components, and the pass returns the last error.
C24_ContinueOnError ==
    [][ComponentAttempted /\ PassGoesOn /\ HoldsLastError /\ ReturnsLastError]_vars

\* A pass has returned the error of the server after the config object
\* could not be written and the cache in between was applied.
C24_Witness ==
    /\ pc = "idle"
    /\ result.err /\ result.cause = "server"
    /\ \E n \in 1..Len(writes) :
          writes[n].key \in {ConfigMapKey, ConfigSecretKey} /\ ~writes[n].ok
    /\ \E n \in 1..Len(writes) :
          writes[n].key = ValkeyDeployment /\ writes[n].ok

\* A normal pass has ended in a failure: a component error, a status
\* lookup failure or a status write failure.
NormalPassFailed ==
    /\ pc = "idle"
    /\ result.branch \in {"component-error", "status-lookup-failed",
                          "status-update-failed"}

\* C25: every normal pass that ends in a failure returns the error with a
\* request to retry after 30 seconds, and only a pass without an error
\* asks to be called again after 5 minutes.
C25_FixedBackoff ==
    /\ NormalPassFailed => (result.err /\ result.requeue = "30s")
    /\ result.requeue = "5m" => ~result.err

\* The status write of a pass failed after every component had succeeded:
\* the pass has returned the error without a retry interval.
C25_Example ==
    /\ pc = "idle"
    /\ result.branch = "status-update-failed"
    /\ result.err
    /\ result.requeue = "none"
    /\ \E n \in 1..Len(writes) : writes[n].op = "status" /\ ~writes[n].ok

\* The conditions of the given type.
ConditionsOfType(conds, type) == {k \in 1..Len(conds) : conds[k].type = type}

ConditionTypes == {"Ready", "Progressing", "Degraded"}

\* The step that ends a normal pass without error.
CleanPassEnds == pc = "status" /\ pc' = "idle" /\ ~result'.err

\* What a clean pass leaves behind.
CleanPassOutcome ==
    CleanPassEnds =>
        LET conds == cr'.status.conditions
        IN /\ Cardinality(ConditionsOfType(conds, "Ready")) = 1
           /\ ReadyConditionTrue(conds) <=> cr'.status.ready
           /\ \A type \in ConditionTypes :
                 Cardinality(ConditionsOfType(conds, type)) <= 1
           /\ \A k \in 1..Len(conds) : conds[k].type \in ConditionTypes
           /\ cr'.status.ready => ConditionsOfType(conds, "Progressing") = {}
           /\ cr'.status.observedGeneration = immich.generation
           /\ cr'.status.observedGeneration = cr'.generation
           /\ result'.requeue = "5m"

\* observedGeneration of a CR changes only in the step that ends a pass
\* without error.
ObservedGenerationOfCleanPass ==
    (cr.exists /\ cr'.exists /\ cr'.uid = cr.uid
     /\ cr'.status.observedGeneration # cr.status.observedGeneration) => CleanPassEnds

\* C26: after a normal pass without error the Ready condition is True
\* exactly if status.ready, there is at most one condition per type,
\* Progressing is absent when ready, observedGeneration is the generation of
\* the CR and the pass asks to be called again after 5 minutes; a pass that
\* returns an error never advances observedGeneration.
C26_CleanPassOutcome ==
    [][CleanPassOutcome /\ ObservedGenerationOfCleanPass]_vars

\* A clean pass on an edited CR has recorded the second generation, all
\* components ready.
C26_Witness ==
    /\ pc = "idle" /\ result.branch = "reconciled" /\ result.requeue = "5m"
    /\ cr.generation = 2
    /\ cr.status.observedGeneration = 2
    /\ cr.status.ready
    /\ ReadyConditionTrue(cr.status.conditions)
    /\ Len(cr.status.conditions) = 1

\* A pass on the edited CR has returned an error: observedGeneration is
\* still that of the first generation.
C26_WitnessError ==
    /\ pc = "idle" /\ result.err
    /\ cr.generation = 2
    /\ cr.status.observedGeneration = 1

\* The place of a write in the order of a normal pass: the library, the
\* configuration, the database, the cache, machine learning, the server,
\* the status of the CR.
WriteRank(w) ==
    IF w.op = "status" THEN 7
    ELSE IF w.key = LibraryPVC THEN 1
    ELSE IF w.key \in {ConfigMapKey, ConfigSecretKey} THEN 2
    ELSE IF w.key \in {PostgresCredentials, PostgresStatefulSet, PostgresService} THEN 3
    ELSE IF w.key \in {ValkeyPVC, ValkeyDeployment, ValkeyService} THEN 4
    ELSE IF w.key \in {MLPVC, MLDeployment, MLService} THEN 5
    ELSE IF w.key \in {ServerDeployment, ServerService, ServerRoute, ServerIngress} THEN 6
    ELSE 0

\* The place of a stage of the pass in that order.
StageRank(stage) ==
    CASE stage \in {"library", "library-create"} -> 1
      [] stage = "config" -> 2
      [] stage \in {"postgres", "postgres-create", "postgres-workload"} -> 3
      [] stage = "valkey" -> 4
      [] stage = "ml" -> 5
      [] stage = "server" -> 6
      [] stage = "status" -> 7
      [] OTHER -> 0

ReadyFlag(st, c) ==
    CASE c = "server" -> st.serverReady
      [] c = "machine-learning" -> st.machineLearningReady
      [] c = "valkey" -> st.valkeyReady
      [] c = "postgres" -> st.postgresReady

\* The enabled components of the pass whose workload is not in the store.
WorkloadsNotFound ==
    {c \in Components : ComponentEnabled(immich, c) /\ ~objs[WorkloadOf(c)].exists}

\* The status computation reports a component whose workload is not found
\* not ready, and the instance with it, whatever the other workloads
\* report.
NotFoundIsNotReady ==
    pc = "status" =>
        \A replicasReady \in ReadinessObservations, c \in WorkloadsNotFound :
            LET st == updateStatus(immich, objs, replicasReady).status
            IN ~ReadyFlag(st, c) /\ ~st.ready

\* The status computation fails only when a lookup fails for a reason
\* other than not-found; the pass then returns that error and writes no
\* status.  A workload that is not found is no error.
LookupFailureEndsPass ==
    (pc = "status" /\ pc' = "idle") =>
        /\ result'.branch = "status-lookup-failed" <=>
              (disturbances' < disturbances /\ writes' = writes)
        /\ result'.branch = "status-lookup-failed" =>
              /\ result'.err
              /\ StatusWrites = {} /\ writes' = writes
              /\ cr' = cr
        /\ (disturbances' = disturbances /\ reconcileErr = NoErr /\ CRWritable) =>
              /\ ~result'.err
              /\ \A c \in WorkloadsNotFound :
                    ~ReadyFlag(cr'.status, c) /\ ~cr'.status.ready

\* C28: a workload that is not found makes its component not ready and is
\* no error; any other lookup failure makes the status computation return
\* an error, which the pass returns without persisting a status.
C28_LookupsTolerateAbsence ==
    []NotFoundIsNotReady /\ [][LookupFailureEndsPass]_vars

\* The status computation of a pass finds the Deployment of the server
\* absent (its apply failed), and the pass has since returned the error of
\* the component, not one of the lookup.
C28_Witness ==
    /\ pc = "idle"
    /\ result.branch = "component-error" /\ result.cause = "server"
    /\ cr.exists /\ IsServerEnabled(cr)
    /\ ~objs[ServerDeployment].exists
    /\ \E n \in 1..Len(writes) : writes[n].key = ServerDeployment /\ ~writes[n].ok

\* A lookup failed: the pass has returned the error and written no status.
C28_WitnessFailure ==
    /\ pc = "idle"
    /\ result.branch = "status-lookup-failed"
    /\ result.err
    /\ StatusWrites = {}
    /\ Len(writes) > 0

\* The objects a normal pass on the CR i reads or writes: those of the
\* components, the ingress, the route and the volumes its spec enables.
PassKeys(i) ==
    {DesiredSteps(i)[n].key : n \in 1..Len(DesiredSteps(i))}
    \cup (IF LibraryNeeded(i) THEN {LibraryPVC} ELSE {})
    \cup (IF PostgresNeeded(i) /\ i.spec.postgres.passwordSecretRef = Nil
          THEN {PostgresCredentials} ELSE {})

\* No step of a pass removes an object, and a pass leaves the objects of
\* what the spec it read does not enable as they are; an object goes only
\* when the garbage collector removes it after its owner is gone.
NoChildDeleted ==
    /\ PassStep => \A k \in ObjKeys : objs[k].exists => objs'[k].exists
    /\ PassStep => \A k \in ObjKeys \ PassKeys(immich) : objs'[k] = objs[k]
    /\ \A k \in ObjKeys :
          (objs[k].exists /\ ~objs'[k].exists) =>
              (~cr.exists \/ cr.uid # objs[k].owner)

\* C29: no pass deletes a child object; the objects of a component, an
\* ingress, a route or a volume that the spec no longer enables stay in
\* the cluster, unchanged by later passes, until the CR is deleted.
C29_NoChildDeleted == [][NoChildDeleted]_vars

\* After the server (with ingress and route), the cache (with its volume)
\* and machine learning were disabled and a pass has succeeded, their
\* objects are still there, owned by the CR.
C29_Witness ==
    /\ pc = "idle" /\ result.branch = "reconciled"
    /\ cr.spec = ExternalSpec
    /\ cr.status.observedGeneration = cr.generation
    /\ \A k \in {ServerDeployment, ServerService, ServerIngress, ServerRoute,
                 ValkeyPVC, ValkeyDeployment, ValkeyService,
                 MLDeployment, MLService} :
          objs[k].exists /\ objs[k].owner = cr.uid

\* The durable objects the operator creates after an existence check, and
\* the stages of the check and of the create of each.
RacedKeys == {LibraryPVC, PostgresCredentials}
CheckStage(k) == IF k = LibraryPVC THEN "library" ELSE "postgres"
CreateStage(k) == IF k = LibraryPVC THEN "library-create" ELSE "postgres-create"

\* The create of a pass meets an object created since its check: it fails,
\* the object stays as it is and the pass holds the error.
CreateLosesRace ==
    \A k \in RacedKeys :
        (pc = CreateStage(k) /\ pc' # pc /\ objs[k].exists) =>
            /\ writes' = Append(writes, Write("create", k, FALSE))
            /\ objs' = objs
            /\ reconcileErr' = pc
            /\ pc' # "idle"

\* No step of a pass changes an existing durable object.
RacedObjectKept ==
    \A k \in RacedKeys : (PassStep /\ objs[k].exists) => objs'[k] = objs[k]

\* A pass that finds the object at its check goes on without a create and
\* without a new password.
FoundIsReused ==
    \A k \in RacedKeys :
        (pc = CheckStage(k) /\ pc' # pc /\ objs[k].exists) =>
            /\ pc' # CreateStage(k)
            /\ writes' = writes
            /\ generated' = generated
            /\ disturbances' = disturbances => reconcileErr' = reconcileErr

\* A pass that lost the race has ended: it has returned an error, that of
\* the create unless a later call of the pass failed as well.
RaceLostPassFailed ==
    \A k \in RacedKeys :
        (pc = "idle" /\ objs[k] = ExternalObject
         /\ \E n \in 1..Len(writes) : writes[n] = Write("create", k, FALSE)) =>
            /\ result.err
            /\ result.branch = "component-error" =>
                  StageRank(result.cause) >= StageRank(CreateStage(k))

\* C30: when another actor creates the credentials Secret or the library
\* PVC between the existence check and the create of a pass, the create
\* fails, the pass returns an error, the object keeps its content, and the
\* next pass finds it and reuses it without a second password.
C30_CheckThenCreateRace ==
    /\ []RaceLostPassFailed
    /\ [][CreateLosesRace /\ RacedObjectKept /\ FoundIsReused]_vars

\* The pass after a lost race on the credentials Secret: one password was
\* generated and never stored, the Secret is the one the other actor
\* created, and the pass has gone on from the check to the StatefulSet.
C30_Witness ==
    /\ pc = "postgres-workload"
    /\ generated = 1
    /\ objs[PostgresCredentials] = ExternalObject
    /\ reconcileErr = NoErr

\* A pass that lost the race on the library PVC has returned the error of
\* the create.
C30_WitnessLibrary ==
    /\ pc = "idle"
    /\ result.branch = "component-error" /\ result.cause = "library-create"
    /\ result.requeue = "30s"
    /\ objs[LibraryPVC] = ExternalObject
    /\ writes[1] = Write("create", LibraryPVC, FALSE)

====
